---- MODULE Spec2Model ----
(***************************************************************************)
(* Course registration system (src/Course.py): the enrollment state        *)
(* machine of RegistrationSystem, Course, Student, Professor, Registrar    *)
(* and Registration.                                                       *)
(*                                                                         *)
(* A Registration object is identified by its position in the system-wide  *)
(* list RegistrationSystem._registrations: the lists of a Course and of a  *)
(* Student hold such positions (Python object references).                 *)
(***************************************************************************)
EXTENDS Integers, Sequences, FiniteSets, TLC

\* ---------------------------------------------------------------- bounds
MaxCap == 2
MaxRegs == 3
MaxRegsOverride == 2
MaxRegsMenu == 1
MaxRegsRace == 2
MaxRegsPrereq == 2
MaxRegsStore == 2

\* ------------------------------------------------------------- universe
Students == {"s1", "s2", "s3"}
Courses == {"X", "Y"}
Professors == {"p1", "p2"}

None == "None"

\* class CourseStatus
CourseStatus == {"OPEN", "FULL", "CLOSED"}

\* class Grade (the values of the enumeration)
Grade == {"A+", "A", "A-", "B+", "B", "B-", "C+", "C", "C-", "D", "F", "I", "W", "NG"}

\* The grades the assign_grade calls of the model draw from.
GradeInputs == {"B-", "F", "I", "W", "NG"}

\* Course._name and Course._credits of the modelled courses
name == [c \in Courses |-> "Course " \o c]
credits == [c \in Courses |-> IF c = "Y" THEN 4 ELSE 3]

\* The prerequisite lists (Course.add_prerequisite, called before any
\* registration exists): X requires Y; or X requires Y and then X itself.
PrereqConfigs ==
  { [c \in Courses |-> IF c = "X" THEN <<"Y">> ELSE << >>],
    [c \in Courses |-> IF c = "X" THEN <<"Y", "X">> ELSE << >>] }

\* Professor.assign_course as called at set-up: p1 teaches X, p2 teaches Y
InitialTeaching == [p \in Professors |-> IF p = "p1" THEN <<"X">> ELSE <<"Y">>]

\* Course._instructor after those calls
InitialInstructor == [c \in Courses |-> IF c = "X" THEN "p1" ELSE "p2"]

\* -------------------------------------------------------------- messages
MsgClosed == "Course is closed for registration"
MsgFull == "Course is full"
MsgAlready == "Already enrolled in this course"
MsgPrereq == "Prerequisite not met: "
MsgRegistered == "Successfully registered for course"
MsgFailed == "Failed to register for course"
MsgNotEnrolled == "Not enrolled in this course"
MsgDropped == "Successfully dropped course"
MsgStudentNotEnrolled == "Student not enrolled in course"
MsgGraded == "Grade assigned successfully"
MsgNotAuthorized == "Professor not authorized to grade this course"

\* ----------------------------------------------------------------- state
VARIABLES
  status,            \* Course._status
  enrolled_students, \* Course._enrolled_students
  max_capacity,      \* Course._max_capacity
  prerequisites,     \* Course._prerequisites
  enrollments,       \* Student._enrollments
  total_credits,     \* Student._total_credits
  teaching_courses,  \* Professor._teaching_courses
  instructor,        \* Course._instructor
  registrations,     \* RegistrationSystem._registrations (and the Registration objects)
  gpa,               \* Student._gpa
  current_user,      \* RegistrationSystem._current_user
  reg_no,            \* interactive_menu: the registration number last typed
  pc,                \* concurrent callers: the line each is about to execute
  call,              \* concurrent callers: the arguments of the call in progress
  serialized,        \* concurrent callers: whether the calls exclude each other
  loaded,            \* concurrent callers: the _total_credits read at line 205
  students,          \* RegistrationSystem._students: user id -> password of the Student
  courses,           \* RegistrationSystem._courses: the course codes stored
  person_password    \* Person._password of the Student object of each id

vars == <<status, enrolled_students, max_capacity, prerequisites, enrollments,
          total_credits, teaching_courses, instructor, registrations,
         gpa, current_user, reg_no, pc, call, serialized, loaded, students, courses,
          person_password>>

\* the concurrent callers
race == <<pc, call, serialized, loaded>>

\* the state outside the enrollment engine
\* the stores a registrar removes from
stores == <<students, courses, person_password>>

aux == <<gpa, current_user, reg_no, race, stores>>

\* ---------------------------------------------------------- sequence help
Range(seq) == {seq[i] : i \in 1..Len(seq)}

\* list.remove(x): removes the first element equal to x
RECURSIVE Remove(_, _)
Remove(seq, x) ==
  IF seq = << >> THEN << >>
  ELSE IF Head(seq) = x THEN Tail(seq)
  ELSE <<Head(seq)>> \o Remove(Tail(seq), x)

\* a loop that stops at the first matching element: the least of the
\* matching positions, 0 if there is none
First(hits) ==
  IF hits = {} THEN 0 ELSE CHOOSE i \in hits : \A j \in hits : i <= j

\* ---------------------------------------------------------------- Course
get_current_enrollment(c) == Len(enrolled_students[c])

\* variant: strict comparison
is_full_strict(c) == get_current_enrollment(c) > max_capacity[c]

is_full(c) == get_current_enrollment(c) >= max_capacity[c]

\* variant: no capacity check at insertion
enroll_student_nocheck(c, r) ==
  IF status[c] = "CLOSED"
  THEN [ok |-> FALSE, status |-> status[c], enrolled |-> enrolled_students[c]]
  ELSE LET e == Append(enrolled_students[c], r)
       IN [ok |-> TRUE,
           status |-> IF Len(e) >= max_capacity[c] THEN "FULL" ELSE status[c],
           enrolled |-> e]

\* variant: the status is not updated after the append
enroll_student_nofull(c, r) ==
  IF status[c] = "CLOSED"
  THEN [ok |-> FALSE, status |-> status[c], enrolled |-> enrolled_students[c]]
  ELSE IF is_full(c)
  THEN [ok |-> FALSE, status |-> "FULL", enrolled |-> enrolled_students[c]]
  ELSE [ok |-> TRUE, status |-> status[c], enrolled |-> Append(enrolled_students[c], r)]

\* variant: a refused insertion leaves the status as it is
enroll_student_norecompute(c, r) ==
  IF status[c] = "CLOSED"
  THEN [ok |-> FALSE, status |-> status[c], enrolled |-> enrolled_students[c]]
  ELSE IF is_full(c)
  THEN [ok |-> FALSE, status |-> status[c], enrolled |-> enrolled_students[c]]
  ELSE LET e == Append(enrolled_students[c], r)
       IN [ok |-> TRUE,
           status |-> IF Len(e) >= max_capacity[c] THEN "FULL" ELSE status[c],
           enrolled |-> e]

\* Course.enroll_student: the resulting status and list, and the value returned
enroll_student(c, r) ==
  IF status[c] = "CLOSED"
  THEN [ok |-> FALSE, status |-> status[c], enrolled |-> enrolled_students[c]]
  ELSE IF is_full(c)
  THEN [ok |-> FALSE, status |-> "FULL", enrolled |-> enrolled_students[c]]
  ELSE LET e == Append(enrolled_students[c], r)
       IN [ok |-> TRUE,
           status |-> IF Len(e) >= max_capacity[c] THEN "FULL" ELSE status[c],
           enrolled |-> e]

\* variant: any status is reopened when the course is no longer full
drop_student_reopenany(c, r) ==
  IF r \in Range(enrolled_students[c])
  THEN LET e == Remove(enrolled_students[c], r)
       IN [status |-> IF ~(Len(e) >= max_capacity[c]) THEN "OPEN" ELSE status[c],
           enrolled |-> e]
  ELSE [status |-> status[c], enrolled |-> enrolled_students[c]]

\* variant: the status is not reopened
drop_student_noreopen(c, r) ==
  IF r \in Range(enrolled_students[c])
  THEN [status |-> status[c], enrolled |-> Remove(enrolled_students[c], r)]
  ELSE [status |-> status[c], enrolled |-> enrolled_students[c]]

\* variant: the registration stays in the list
drop_student_noremove(c, r) ==
  [status |-> IF status[c] = "FULL" /\ ~is_full(c) THEN "OPEN" ELSE status[c],
   enrolled |-> enrolled_students[c]]

\* Course.drop_student: the resulting status and list
drop_student(c, r) ==
  IF r \in Range(enrolled_students[c])
  THEN LET e == Remove(enrolled_students[c], r)
       IN [status |-> IF status[c] = "FULL" /\ ~(Len(e) >= max_capacity[c])
                      THEN "OPEN" ELSE status[c],
           enrolled |-> e]
  ELSE [status |-> status[c], enrolled |-> enrolled_students[c]]

\* --------------------------------------------------------------- Student
\* variant: the registration is not appended to the student's list
enroll_course_noappend(s, r, c) ==
  IF r \notin Range(enrollments[s])
  THEN [list |-> enrollments[s], total |-> total_credits[s] + credits[c]]
  ELSE [list |-> enrollments[s], total |-> total_credits[s]]

\* variant: the credits are not added
enroll_course_nocredits(s, r, c) ==
  IF r \notin Range(enrollments[s])
  THEN [list |-> Append(enrollments[s], r), total |-> total_credits[s]]
  ELSE [list |-> enrollments[s], total |-> total_credits[s]]

\* Student.enroll_course: the resulting list and credit total
enroll_course(s, r, c) ==
  IF r \notin Range(enrollments[s])
  THEN [list |-> Append(enrollments[s], r), total |-> total_credits[s] + credits[c]]
  ELSE [list |-> enrollments[s], total |-> total_credits[s]]

\* variant: the credits are not subtracted
drop_course_student_nocredits(s, r, c) ==
  IF r \in Range(enrollments[s])
  THEN [list |-> Remove(enrollments[s], r), total |-> total_credits[s]]
  ELSE [list |-> enrollments[s], total |-> total_credits[s]]

\* variant: the registration stays in the student's list
drop_course_student_keep(s, r, c) ==
  IF r \in Range(enrollments[s])
  THEN [list |-> enrollments[s], total |-> total_credits[s] - credits[c]]
  ELSE [list |-> enrollments[s], total |-> total_credits[s]]

\* Student.drop_course: the resulting list and credit total
drop_course_student(s, r, c) ==
  IF r \in Range(enrollments[s])
  THEN [list |-> Remove(enrollments[s], r), total |-> total_credits[s] - credits[c]]
  ELSE [list |-> enrollments[s], total |-> total_credits[s]]

\* ---------------------------------------------------- RegistrationSystem
\* variant: the course code is not compared
FindActive_anycourse(s, c) ==
  First({i \in 1..Len(enrollments[s]) :
           registrations[enrollments[s][i]].status = "Active"})

\* the loop "for reg in student.get_enrollments(): if reg.course.course_code
\* == course.course_code and reg.status == 'Active'": position in the
\* student's list of the first such registration, 0 if none
FindActive(s, c) ==
  First({i \in 1..Len(enrollments[s]) :
           /\ registrations[enrollments[s][i]].course = c
           /\ registrations[enrollments[s][i]].status = "Active"})

\* variant: no duplicate check
AlreadyEnrolled_never(s, c) == FALSE

\* variant: the comparison of the course codes is inverted
AlreadyEnrolled_other(s, c) ==
  First({i \in 1..Len(enrollments[s]) :
           /\ registrations[enrollments[s][i]].course # c
           /\ registrations[enrollments[s][i]].status = "Active"}) # 0

\* the "Already enrolled" check of register_student_for_course
AlreadyEnrolled(s, c) == FindActive(s, c) # 0

\* variant: INCOMPLETE is not excluded
student_completed_courses_incomplete(s) ==
  { registrations[r].course :
      r \in { q \in Range(enrollments[s]) :
                /\ registrations[q].grade # None
                /\ registrations[q].grade \notin {"F", "W"} } }

\* student_completed_courses of register_student_for_course
student_completed_courses(s) ==
  { registrations[r].course :
      r \in { q \in Range(enrollments[s]) :
                /\ registrations[q].grade # None
                /\ registrations[q].grade \notin {"F", "I", "W"} } }

\* variant: the prerequisites are not looked at
FirstUnmetPrerequisite_none(s, c) == 0

\* the loop over course.get_prerequisites(): position of the first
\* prerequisite that is not completed, 0 if none
FirstUnmetPrerequisite(s, c) ==
  LET done == student_completed_courses(s)
  IN First({i \in 1..Len(prerequisites[c]) : prerequisites[c][i] \notin done})

\* variant: the duplicate check comes before the FULL check
register_checks_swapped(s, c) ==
  IF status[c] = "CLOSED" THEN MsgClosed
  ELSE IF AlreadyEnrolled(s, c) THEN MsgAlready
  ELSE IF status[c] = "FULL" THEN MsgFull
  ELSE IF FirstUnmetPrerequisite(s, c) # 0
       THEN MsgPrereq \o name[prerequisites[c][FirstUnmetPrerequisite(s, c)]]
  ELSE None

\* variant: the CLOSED status is not checked
register_checks_noclosed(s, c) ==
  IF status[c] = "FULL" THEN MsgFull
  ELSE IF AlreadyEnrolled(s, c) THEN MsgAlready
  ELSE IF FirstUnmetPrerequisite(s, c) # 0
       THEN MsgPrereq \o name[prerequisites[c][FirstUnmetPrerequisite(s, c)]]
  ELSE None

\* the checks of register_student_for_course that precede the creation of
\* the Registration: the message of the first failing one, None if all pass
register_checks(s, c) ==
  IF status[c] = "CLOSED" THEN MsgClosed
  ELSE IF status[c] = "FULL" THEN MsgFull
  ELSE IF AlreadyEnrolled(s, c) THEN MsgAlready
  ELSE IF FirstUnmetPrerequisite(s, c) # 0
       THEN MsgPrereq \o name[prerequisites[c][FirstUnmetPrerequisite(s, c)]]
  ELSE None

\* the (success, message) pair register_student_for_course returns
register_result(s, c) ==
  LET pre == register_checks(s, c)
  IN IF pre # None THEN [ok |-> FALSE, msg |-> pre]
     ELSE IF enroll_student(c, Len(registrations) + 1).ok
          THEN [ok |-> TRUE, msg |-> MsgRegistered]
          ELSE [ok |-> FALSE, msg |-> MsgFailed]

\* variant: the Registration is kept in the system list when the course
\* refuses the insertion
register_student_for_course_append(s, c) ==
  /\ register_checks(s, c) = None
  /\ LET r == Len(registrations) + 1
         e == enroll_student(c, r)
         st == enroll_course(s, r, c)
     IN IF e.ok
          THEN /\ status' = [status EXCEPT ![c] = e.status]
               /\ enrolled_students' = [enrolled_students EXCEPT ![c] = e.enrolled]
               /\ enrollments' = [enrollments EXCEPT ![s] = st.list]
               /\ total_credits' = [total_credits EXCEPT ![s] = st.total]
               /\ registrations' = Append(registrations,
                     [student |-> s, course |-> c, grade |-> None, status |-> "Active"])
               /\ UNCHANGED <<aux, max_capacity, prerequisites, teaching_courses, instructor>>
          ELSE /\ status' = [status EXCEPT ![c] = e.status]
               /\ registrations' = Append(registrations,
                     [student |-> s, course |-> c, grade |-> None, status |-> "Active"])
               /\ UNCHANGED <<aux, enrolled_students, max_capacity, prerequisites,
                              enrollments, total_credits, teaching_courses, instructor>>

\* RegistrationSystem.register_student_for_course(student, course, semester)
register_student_for_course(s, c) ==
  /\ register_checks(s, c) = None
  /\ LET r == Len(registrations) + 1
         e == enroll_student(c, r)
         st == enroll_course(s, r, c)
     IN IF e.ok
          THEN /\ status' = [status EXCEPT ![c] = e.status]
               /\ enrolled_students' = [enrolled_students EXCEPT ![c] = e.enrolled]
               /\ enrollments' = [enrollments EXCEPT ![s] = st.list]
               /\ total_credits' = [total_credits EXCEPT ![s] = st.total]
               /\ registrations' = Append(registrations,
                     [student |-> s, course |-> c, grade |-> None, status |-> "Active"])
               /\ UNCHANGED <<aux, max_capacity, prerequisites, teaching_courses, instructor>>
          ELSE /\ status' = [status EXCEPT ![c] = e.status]
               /\ UNCHANGED <<aux, enrolled_students, max_capacity, prerequisites,
                              enrollments, total_credits, teaching_courses, instructor,
                              registrations>>

\* the (success, message) pair drop_course returns
drop_result(s, c) ==
  IF FindActive(s, c) = 0
  THEN [ok |-> FALSE, msg |-> MsgNotEnrolled]
  ELSE [ok |-> TRUE, msg |-> MsgDropped]

\* RegistrationSystem.drop_course(student, course), with Registration.drop
drop_course(s, c) ==
  /\ FindActive(s, c) # 0
  /\ LET r == enrollments[s][FindActive(s, c)]
         d == drop_student(c, r)
         st == drop_course_student(s, r, registrations[r].course)
     IN      /\ registrations' = [registrations EXCEPT ![r].status = "Dropped",
                                                       ![r].grade = "W"]
             /\ status' = [status EXCEPT ![c] = d.status]
             /\ enrolled_students' = [enrolled_students EXCEPT ![c] = d.enrolled]
             /\ enrollments' = [enrollments EXCEPT ![s] = st.list]
             /\ total_credits' = [total_credits EXCEPT ![s] = st.total]
             /\ UNCHANGED <<aux, max_capacity, prerequisites, teaching_courses, instructor>>

\* the loop of RegistrationSystem.assign_grade: position in the student's
\* list of the first registration for the course, whatever its status
FindRegistration(s, c) ==
  First({i \in 1..Len(enrollments[s]) : registrations[enrollments[s][i]].course = c})

\* the (success, message) pair assign_grade returns
assign_grade_result(p, s, c) ==
  LET i == FindRegistration(s, c)
  IN IF i = 0 THEN [ok |-> FALSE, msg |-> MsgStudentNotEnrolled]
     ELSE IF registrations[enrollments[s][i]].course \in Range(teaching_courses[p])
          THEN [ok |-> TRUE, msg |-> MsgGraded]
          ELSE [ok |-> FALSE, msg |-> MsgNotAuthorized]

\* RegistrationSystem.assign_grade(professor, student, course, grade), with
\* Professor.assign_grade and Registration.assign_grade
assign_grade(p, s, c, g) ==
  /\ FindRegistration(s, c) # 0
  /\ LET r == enrollments[s][FindRegistration(s, c)]
     IN /\ registrations[r].course \in Range(teaching_courses[p])
        /\ registrations' = [registrations EXCEPT ![r].grade = g]
        /\ UNCHANGED <<aux, status, enrolled_students, max_capacity, prerequisites,
                       enrollments, total_credits, teaching_courses, instructor>>

\* RegistrationSystem.get_system_statistics (the counts of registrations)
get_system_statistics ==
  [total_registrations |-> Len(registrations),
   active_registrations |->
     Cardinality({i \in 1..Len(registrations) : registrations[i].status = "Active"})]

\* Registrar.update_course_status(course, status)
update_course_status(c, v) ==
  /\ status' = [status EXCEPT ![c] = v]
  /\ UNCHANGED <<aux, enrolled_students, max_capacity, prerequisites, enrollments,
                 total_credits, teaching_courses, instructor, registrations>>

\* ------------------------------------------------------------- Professor
\* Professor.assign_course(course), with the Course.instructor setter
assign_course(p, c) ==
  /\ c \notin Range(teaching_courses[p])
  /\ teaching_courses' = [teaching_courses EXCEPT ![p] = Append(@, c)]
  /\ instructor' = [instructor EXCEPT ![c] = p]
  /\ UNCHANGED <<aux, status, enrolled_students, max_capacity, prerequisites,
                 enrollments, total_credits, registrations>>

\* Professor.remove_course(course)
remove_course(p, c) ==
  /\ c \in Range(teaching_courses[p])
  /\ teaching_courses' = [teaching_courses EXCEPT ![p] = Remove(@, c)]
  /\ UNCHANGED <<aux, status, enrolled_students, max_capacity, prerequisites,
                 enrollments, total_credits, instructor, registrations>>

\* ------------------------------------------------------- specifications
\* Course.__init__, Student.__init__, RegistrationSystem.__init__ and the
\* set-up calls add_prerequisite and assign_course
\* ------------------------------------------------------------- reporting
\* A grade point average is a Python float, an IEEE 754 double: the value
\* m * 2^e, with the 53-digit binary significand m kept as a number in base
\* 2^15 (least significant digit first, no zero at the most significant
\* end) and m = << >> for 0.0.  The arithmetic is done on such numbers and
\* rounded to the nearest double, ties to even.

\* 0.0
Zero == [m |-> << >>, e |-> 0]

\* a natural number in base 2^15, least significant digit first
RECURSIVE Limbs(_)
Limbs(n) == IF n = 0 THEN << >> ELSE <<n % 2^15>> \o Limbs(n \div 2^15)

\* the natural number of a sequence of digits
RECURSIVE Val(_)
Val(a) == IF a = << >> THEN 0 ELSE Head(a) + 2^15 * Val(Tail(a))

\* the digits without the zeros at the most significant end
RECURSIVE Strip(_)
Strip(a) ==
  IF a = << >> \/ a[Len(a)] # 0 THEN a ELSE Strip(SubSeq(a, 1, Len(a) - 1))

\* a + b + carry
RECURSIVE AddLimbs(_, _, _)
AddLimbs(a, b, carry) ==
  IF a = << >> /\ b = << >> THEN Limbs(carry)
  ELSE LET x == IF a = << >> THEN 0 ELSE Head(a)
           y == IF b = << >> THEN 0 ELSE Head(b)
       IN <<(x + y + carry) % 2^15>>
            \o AddLimbs(IF a = << >> THEN a ELSE Tail(a),
                        IF b = << >> THEN b ELSE Tail(b),
                        (x + y + carry) \div 2^15)

\* a * c + carry, for 0 < c <= 2^15
RECURSIVE MulLimbs(_, _, _)
MulLimbs(a, c, carry) ==
  IF a = << >> THEN Limbs(carry)
  ELSE <<(Head(a) * c + carry) % 2^15>>
         \o MulLimbs(Tail(a), c, (Head(a) * c + carry) \div 2^15)

\* quotient and remainder of a by d, for 0 < d <= 2^15, by long division
\* from the most significant digit; the quotient has as many digits as a
DivLimbs(a, d) ==
  LET Step(high, digit) ==
        [q |-> <<(high.r * 2^15 + digit) \div d>> \o high.q,
         r |-> (high.r * 2^15 + digit) % d]
      RECURSIVE Loop(_)
      Loop(rest) == IF rest = << >> THEN [q |-> << >>, r |-> 0]
                    ELSE Step(Loop(Tail(rest)), Head(rest))
  IN Loop(a)

\* a * 2^k
ShiftLeft(a, k) ==
  IF a = << >> THEN a ELSE [i \in 1..(k \div 15) |-> 0] \o MulLimbs(a, 2^(k % 15), 0)

\* a \div 2^k, and whether a binary digit 1 was dropped
ShiftRight(a, k) ==
  LET w == IF k \div 15 < Len(a) THEN k \div 15 ELSE Len(a)
      t == DivLimbs(SubSeq(a, w + 1, Len(a)), 2^(k % 15))
  IN [q |-> Strip(t.q), inexact |-> t.r # 0 \/ \E i \in 1..w : a[i] # 0]

\* the integer nearest to (a + f) / 2^k, ties to even, where k > 0,
\* 0 <= f < 1 and f > 0 exactly when sticky
RoundShift(a, k, sticky) ==
  LET t == ShiftRight(a, k - 1)
      kept == DivLimbs(t.q, 2)
      q == Strip(kept.q)
      up == kept.r = 1 /\ (t.inexact \/ sticky \/ (q # << >> /\ q[1] % 2 = 1))
  IN IF up THEN AddLimbs(q, << >>, 1) ELSE q

\* the double nearest to (n + f) * 2^e, ties to even, where 0 <= f < 1 and
\* f > 0 exactly when sticky (then n has more than 53 binary digits)
Round53(n, e, sticky) ==
  LET BitLen(a) ==
        15 * (Len(a) - 1)
          + CHOOSE k \in 1..15 : 2^(k - 1) <= a[Len(a)] /\ a[Len(a)] < 2^k
  IN IF n = << >> THEN Zero
     ELSE IF BitLen(n) <= 53
     THEN [m |-> ShiftLeft(n, 53 - BitLen(n)), e |-> e - (53 - BitLen(n))]
     ELSE LET k == BitLen(n) - 53
              r == RoundShift(n, k, sticky)
          IN IF BitLen(r) = 54 THEN [m |-> ShiftRight(r, 1).q, e |-> e + k + 1]
             ELSE [m |-> r, e |-> e + k]

\* float(n) of a natural number
float(n) == Round53(Limbs(n), 0, FALSE)

\* x * c for a float x and an int c > 0 (c is converted exactly)
mul(x, c) == Round53(MulLimbs(x.m, c, 0), x.e, FALSE)

\* x + y for two floats
add(x, y) ==
  LET e == IF x.e < y.e THEN x.e ELSE y.e
  IN Round53(AddLimbs(ShiftLeft(x.m, x.e - e), ShiftLeft(y.m, y.e - e), 0), e, FALSE)

\* x / d for a float x and an int d > 0 (d is converted exactly)
truediv(x, d) ==
  LET t == DivLimbs(ShiftLeft(x.m, 64), d)
  IN Round53(Strip(t.q), x.e - 64, t.r # 0)

\* round(x, 2) for 0.0 <= x < 2^52: the exact value of x is rounded to the
\* nearest hundredth, ties to even, and the result is the double nearest to
\* that decimal
round(x) ==
  IF x.m = << >> THEN Zero
  ELSE truediv(float(Val(RoundShift(MulLimbs(x.m, 100, 0), 0 - x.e, FALSE))), 100)

\* variant: NOT_GRADED is worth 0 points
grade_points_ng ==
  "A+" :> [m |-> <<0, 0, 0, 128>>, e |-> -50] @@
  "A" :> [m |-> <<0, 0, 0, 128>>, e |-> -50] @@
  "A-" :> [m |-> <<6554, 13107, 26214, 236>>, e |-> -51] @@
  "B+" :> [m |-> <<26214, 19660, 6553, 211>>, e |-> -51] @@
  "B" :> [m |-> <<0, 0, 0, 192>>, e |-> -51] @@
  "B-" :> [m |-> <<6554, 13107, 26214, 172>>, e |-> -51] @@
  "C+" :> [m |-> <<26214, 19660, 6553, 147>>, e |-> -51] @@
  "C" :> [m |-> <<0, 0, 0, 128>>, e |-> -51] @@
  "C-" :> [m |-> <<13107, 26214, 19660, 217>>, e |-> -52] @@
  "D" :> [m |-> <<0, 0, 0, 128>>, e |-> -52] @@
  "F" :> Zero @@
  "NG" :> Zero

\* the dictionary grade_points of Student.calculate_gpa: each literal is the
\* double nearest to it (4.0 = 2^2, 3.7 = 0x1.d99999999999ap+1,
\* 3.3 = 0x1.a666666666666p+1, 3.0 = 0x1.8p+1, 2.7 = 0x1.599999999999ap+1,
\* 2.3 = 0x1.2666666666666p+1, 2.0 = 2^1, 1.7 = 0x1.b333333333333p+0,
\* 1.0 = 2^0), which is truediv(float(tenths), 10)
grade_points ==
  "A+" :> [m |-> <<0, 0, 0, 128>>, e |-> -50] @@
  "A" :> [m |-> <<0, 0, 0, 128>>, e |-> -50] @@
  "A-" :> [m |-> <<6554, 13107, 26214, 236>>, e |-> -51] @@
  "B+" :> [m |-> <<26214, 19660, 6553, 211>>, e |-> -51] @@
  "B" :> [m |-> <<0, 0, 0, 192>>, e |-> -51] @@
  "B-" :> [m |-> <<6554, 13107, 26214, 172>>, e |-> -51] @@
  "C+" :> [m |-> <<26214, 19660, 6553, 147>>, e |-> -51] @@
  "C" :> [m |-> <<0, 0, 0, 128>>, e |-> -51] @@
  "C-" :> [m |-> <<13107, 26214, 19660, 217>>, e |-> -52] @@
  "D" :> [m |-> <<0, 0, 0, 128>>, e |-> -52] @@
  "F" :> Zero

\* the loop of Student.calculate_gpa over a list of enrollments (the grade
\* and the credits of the course of each) from position i on, with its two
\* accumulators
RECURSIVE GpaLoop(_, _, _, _)
GpaLoop(list, i, total_points, credit_sum) ==
  IF i > Len(list)
  THEN [total_points |-> total_points, total_credits |-> credit_sum]
  ELSE LET enrollment == list[i]
       IN IF enrollment.grade # None /\ enrollment.grade \in DOMAIN grade_points
          THEN GpaLoop(list, i + 1,
                       add(total_points, mul(grade_points[enrollment.grade], enrollment.credits)),
                       credit_sum + enrollment.credits)
          ELSE GpaLoop(list, i + 1, total_points, credit_sum)

\* the value Student.calculate_gpa returns for a list of enrollments
gpa_of(list) ==
  LET t == GpaLoop(list, 1, Zero, 0)
  IN IF t.total_credits > 0 THEN truediv(t.total_points, t.total_credits) ELSE Zero

\* the value Student.calculate_gpa returns
calculate_gpa_result(s) ==
  gpa_of([i \in 1..Len(enrollments[s]) |->
            [grade |-> registrations[enrollments[s][i]].grade,
             credits |-> credits[registrations[enrollments[s][i]].course]]])

\* Student.calculate_gpa()
calculate_gpa(s) ==
  /\ gpa' = [gpa EXCEPT ![s] = calculate_gpa_result(s)]
  /\ UNCHANGED <<status, enrolled_students, max_capacity, prerequisites, enrollments,
                 total_credits, teaching_courses, instructor, registrations,
                 current_user, reg_no, race, stores>>

\* the dictionary Student.get_grade_report returns
get_grade_report_result(s) ==
  [student_id |-> s,
   gpa |-> round(calculate_gpa_result(s)),
   total_credits |-> total_credits[s],
   courses |-> [i \in 1..Len(enrollments[s]) |->
                  LET enrollment == registrations[enrollments[s][i]]
                  IN [code |-> enrollment.course,
                      name |-> name[enrollment.course],
                      credits |-> credits[enrollment.course],
                      grade |-> IF enrollment.grade # None THEN enrollment.grade
                                ELSE "Not Graded"]]]

\* Student.get_grade_report(), which calls calculate_gpa
get_grade_report(s) ==
  /\ gpa' = [gpa EXCEPT ![s] = calculate_gpa_result(s)]
  /\ UNCHANGED <<status, enrolled_students, max_capacity, prerequisites, enrollments,
                 total_credits, teaching_courses, instructor, registrations,
                 current_user, reg_no, race, stores>>

\* the dictionary RegistrationSystem.get_course_enrollment_report returns
get_course_enrollment_report_result(c) ==
  [course_code |-> c,
   course_name |-> name[c],
   instructor |-> IF instructor[c] # None THEN instructor[c] ELSE "TBA",
   capacity |-> max_capacity[c],
   enrolled |-> Len(enrolled_students[c]),
   available_seats |-> max_capacity[c] - Len(enrolled_students[c]),
   status |-> status[c],
   students |-> [i \in 1..Len(enrolled_students[c]) |->
                   LET reg == registrations[enrolled_students[c][i]]
                   IN [student_id |-> reg.student,
                       grade |-> IF reg.grade # None THEN reg.grade ELSE "Not Graded"]]]

\* RegistrationSystem.get_course_enrollment_report(course): no assignment
get_course_enrollment_report(c) ==
  /\ get_course_enrollment_report_result(c).course_code = c
  /\ UNCHANGED vars

\* a call of RegistrationSystem.get_system_statistics(): no assignment
system_statistics ==
  /\ get_system_statistics.total_registrations = Len(registrations)
  /\ UNCHANGED vars

\* --------------------------------------------------------------- session
\* The three stores of persons, user id -> Person._password.  The registrar
\* "p2" has the user id of a professor and another password.
InitialStudents == [s \in Students |-> IF s = "s2" THEN "pw2" ELSE "pw1"]
professors == [p \in Professors |-> IF p = "p2" THEN "pw2" ELSE "pw1"]
registrars == [r \in {"r1", "p2"} |-> "pw1"]

\* what the callers type
UserIds == Students \cup Professors \cup {"r1", "zz"}
Passwords == {"pw1", "pw2"}

\* a Person object: its class and its user id
Person(role, id) == [role |-> role, id |-> id]

\* no person: the None of Optional[Person]
Nobody == Person(None, None)

\* variant: Person.authenticate is not asked
login_result_nopassword(user_id, password) ==
  IF user_id \in DOMAIN students THEN Person("Student", user_id)
  ELSE IF user_id \in DOMAIN professors THEN Person("Professor", user_id)
  ELSE IF user_id \in DOMAIN registrars THEN Person("Registrar", user_id)
  ELSE Nobody

\* the value RegistrationSystem.login returns (Person.authenticate is the
\* comparison of the passwords)
login_result(user_id, password) ==
  IF user_id \in DOMAIN students /\ students[user_id] = password
  THEN Person("Student", user_id)
  ELSE IF user_id \in DOMAIN professors /\ professors[user_id] = password
  THEN Person("Professor", user_id)
  ELSE IF user_id \in DOMAIN registrars /\ registrars[user_id] = password
  THEN Person("Registrar", user_id)
  ELSE Nobody

\* variant: a failed login ends the session
login_clears(user_id, password) ==
  /\ IF login_result(user_id, password) # Nobody
     THEN current_user' = login_result(user_id, password)
     ELSE current_user' = Nobody
  /\ UNCHANGED <<status, enrolled_students, max_capacity, prerequisites, enrollments,
                 total_credits, teaching_courses, instructor, registrations, gpa, reg_no,
                 race, stores>>

\* RegistrationSystem.login(user_id, password): a failed login assigns nothing
login(user_id, password) ==
  /\ IF login_result(user_id, password) # Nobody
     THEN current_user' = login_result(user_id, password)
     ELSE UNCHANGED current_user
  /\ UNCHANGED <<status, enrolled_students, max_capacity, prerequisites, enrollments,
                 total_credits, teaching_courses, instructor, registrations, gpa, reg_no,
                 race, stores>>

\* RegistrationSystem.logout()
logout ==
  /\ current_user' = Nobody
  /\ UNCHANGED <<status, enrolled_students, max_capacity, prerequisites, enrollments,
                 total_credits, teaching_courses, instructor, registrations, gpa, reg_no,
                 race, stores>>

\* ------------------------------------------------- registration numbers
\* A string is a sequence of one-character strings.  \d of a str pattern
\* matches every decimal digit of Unicode, and int reads them: "U+0662" is
\* the one character ARABIC-INDIC DIGIT TWO.
Digits == {"0", "1", "2", "3", "4", "5", "6", "7", "8", "9", "U+0662"}
UpperCase == {"A", "B", "C", "D", "E", "F", "G", "H", "I", "J", "K", "L", "M",
              "N", "O", "P", "Q", "R", "S", "T", "U", "V", "W", "X", "Y", "Z"}
DigitValue == "0" :> 0 @@ "1" :> 1 @@ "2" :> 2 @@ "3" :> 3 @@ "4" :> 4 @@
              "5" :> 5 @@ "6" :> 6 @@ "7" :> 7 @@ "8" :> 8 @@ "9" :> 9 @@
              "U+0662" :> 2

\* int(text) for a string of decimal digits
RECURSIVE int(_)
int(text) ==
  IF text = << >> THEN 0
  ELSE 10 * int(SubSeq(text, 1, Len(text) - 1)) + DigitValue[text[Len(text)]]

valid_departments ==
  << <<"B","A","C">>, <<"B","A","I">>, <<"B","A","S">>, <<"B","B","A">>,
     <<"B","C","E">>, <<"B","C","G">>, <<"B","C","Y">>, <<"B","E","C">>,
     <<"B","E","T">>, <<"B","E","Y">>, <<"B","H","I">>, <<"B","M","E">>,
     <<"B","M","R">>, <<"B","O","E">> >>

\* re.match(r'^(\d{2})([A-Z]{3})(\d{5})$', reg_no) for a string of 10 characters
regex_match(text) ==
  /\ \A i \in 1..2 : text[i] \in Digits
  /\ \A i \in 3..5 : text[i] \in UpperCase
  /\ \A i \in 6..10 : text[i] \in Digits

\* the messages: the fixed text, and the part of it taken from the input
MsgLength == "Registration number must be 10 characters (e.g., 24BET10001)"
MsgFormat == "Invalid format. Expected: YY-XXX-NNNNN (e.g., 24BET10001)"
MsgYear == "Year code must be between 20-29 (e.g., 24 for 2024)"
MsgDepartment == "Invalid department code '{dept_code}'. Valid codes: {valid_depts}"
MsgStudentId == "Student ID must be between 10001-19999"
MsgValid == "Valid registration number: {reg_no}"
Result(ok, text, part) == [ok |-> ok, msg |-> <<text, part>>]

\* variant: the student number 10000 is let through
validate_registration_number_lowid(text) ==
  IF Len(text) # 10 THEN Result(FALSE, MsgLength, << >>)
  ELSE IF ~regex_match(text) THEN Result(FALSE, MsgFormat, << >>)
  ELSE IF int(SubSeq(text, 1, 2)) < 20 \/ int(SubSeq(text, 1, 2)) > 29
  THEN Result(FALSE, MsgYear, << >>)
  ELSE IF SubSeq(text, 3, 5) \notin Range(valid_departments)
  THEN Result(FALSE, MsgDepartment, SubSeq(text, 3, 5))
  ELSE IF int(SubSeq(text, 6, 10)) < 10000 \/ int(SubSeq(text, 6, 10)) > 19999
  THEN Result(FALSE, MsgStudentId, << >>)
  ELSE Result(TRUE, MsgValid, text)

\* validate_registration_number(reg_no)
validate_registration_number(text) ==
  IF Len(text) # 10 THEN Result(FALSE, MsgLength, << >>)
  ELSE IF ~regex_match(text) THEN Result(FALSE, MsgFormat, << >>)
  ELSE IF int(SubSeq(text, 1, 2)) < 20 \/ int(SubSeq(text, 1, 2)) > 29
  THEN Result(FALSE, MsgYear, << >>)
  ELSE IF SubSeq(text, 3, 5) \notin Range(valid_departments)
  THEN Result(FALSE, MsgDepartment, SubSeq(text, 3, 5))
  ELSE IF int(SubSeq(text, 6, 10)) < 10001 \/ int(SubSeq(text, 6, 10)) > 19999
  THEN Result(FALSE, MsgStudentId, << >>)
  ELSE Result(TRUE, MsgValid, text)

\* str.strip() for blanks and str.upper() for the letters that are typed
RECURSIVE strip(_)
strip(text) ==
  IF text = << >> THEN text
  ELSE IF Head(text) = " " THEN strip(Tail(text))
  ELSE IF text[Len(text)] = " " THEN strip(SubSeq(text, 1, Len(text) - 1))
  ELSE text

upper(text) ==
  [i \in 1..Len(text) |->
     CASE text[i] = "b" -> "B" [] text[i] = "e" -> "E" [] text[i] = "t" -> "T"
       [] OTHER -> text[i]]

\* what is typed as registration number: a valid number with each part
\* varied in turn, lower case, blanks, wrong lengths
TypedYears == { <<"1","9">>, <<"2","0">>, <<"2","4">>, <<"2","9">>, <<"3","0">>, <<"2","X">> }
TypedDepartments ==
  Range(valid_departments) \cup { <<"X","Y","Z">>, <<"b","e","t">>, <<"B","E","7">>, <<"B","-","T">> }
TypedStudentIds ==
  { <<"1","0","0","0","0">>, <<"1","0","0","0","1">>, <<"1","5","4","2","0">>,
    <<"1","9","9","9","9">>, <<"2","0","0","0","0">>, <<"0","9","9","9","9">>,
    <<"1","0","0","0","A">>, <<"1","0","0","0">>, <<"1","0","0","0","1","1">> }
TypedRegNos ==
  {y \o <<"B","E","T">> \o <<"1","0","0","0","1">> : y \in TypedYears}
  \cup {<<"2","4">> \o d \o <<"1","0","0","0","1">> : d \in TypedDepartments}
  \cup {<<"2","4">> \o <<"B","E","T">> \o n : n \in TypedStudentIds}
  \cup { << >>, <<"U+0662","4">> \o <<"B","E","T">> \o <<"1","0","0","0","1">>,
         <<" ">> \o <<"2","9">> \o <<"B","O","E">> \o <<"1","9","9","9","9">> \o <<" ">>,
         <<"2","4">> \o <<" ">> \o <<"B","E","T">> \o <<"1","0","0","0">> }

\* ------------------------------------------------------ command surface
\* The entry the menu prints under a number for the current user (None: no
\* entry).
menu_label(choice, user) ==
  CASE choice = "0" -> "Exit"
    [] choice = "1" -> "Login"
    [] choice = "2" -> "View All Courses"
    [] choice = "3" -> "View Available Courses"
    [] choice = "4" -> "View System Statistics"
    [] choice = "5" /\ user # Nobody ->
         (CASE user.role = "Student" -> "Register for Course"
            [] user.role = "Professor" -> "View My Teaching Courses"
            [] user.role = "Registrar" -> "Add New Student")
    [] choice = "6" /\ user # Nobody ->
         (CASE user.role = "Student" -> "Drop Course"
            [] user.role = "Professor" -> "View Enrolled Students"
            [] user.role = "Registrar" -> "Add New Course")
    [] choice = "7" /\ user # Nobody ->
         (CASE user.role = "Student" -> "View My Courses"
            [] user.role = "Professor" -> "Assign Grade"
            [] user.role = "Registrar" -> "View All Students")
    [] choice = "8" /\ user # Nobody /\ user.role = "Student" -> "View Grade Report"
    [] choice = "9" -> "Logout"
    [] OTHER -> None

\* The operation one pass of the loop of interactive_menu calls for a choice,
\* given the current user (None: the choice calls nothing).
menu_operation(choice, user) ==
  CASE choice = "0" -> "exit"
    [] choice = "1" -> "login"
    [] choice = "2" -> "get_all_courses"
    [] choice = "3" -> "get_available_courses"
    [] choice = "4" -> "get_system_statistics"
    [] choice = "5" /\ user # Nobody ->
         IF user.role = "Student" THEN "register_student_for_course" ELSE None
    [] choice = "6" /\ user # Nobody ->
         IF user.role = "Student" THEN "drop_course" ELSE None
    [] choice = "7" /\ user # Nobody ->
         IF user.role = "Student" THEN "get_enrollments" ELSE None
    [] choice = "8" /\ user # Nobody ->
         IF user.role = "Student" THEN "get_student_grade_report" ELSE None
    [] choice = "9" -> "logout"
    [] OTHER -> None

Choices == {"0", "1", "2", "3", "4", "5", "6", "7", "8", "9", "x"}
CourseCodes == Courses \cup {"Q"}

\* choice "1": the registration number is validated, then user id and
\* password are read and login is called
menu_login(typed, user_id, password) ==
  /\ reg_no' = upper(strip(typed))
  /\ IF validate_registration_number(upper(strip(typed))).ok
        /\ login_result(user_id, password) # Nobody
     THEN current_user' = login_result(user_id, password)
     ELSE UNCHANGED current_user
  /\ UNCHANGED <<status, enrolled_students, max_capacity, prerequisites, enrollments,
                 total_credits, teaching_courses, instructor, registrations, gpa, race, stores>>

\* variant: the registration is made for the first student of the store
menu_register_first(course_code) ==
  IF course_code \in courses
  THEN register_student_for_course("s1", course_code)
  ELSE UNCHANGED vars

\* choice "5" of a student: system.get_course, then register_student_for_course
menu_register(course_code) ==
  IF course_code \in courses
  THEN register_student_for_course(current_user.id, course_code)
  ELSE UNCHANGED vars

\* choice "6" of a student: system.get_course, then drop_course
menu_drop(course_code) ==
  IF course_code \in courses
  THEN drop_course(current_user.id, course_code)
  ELSE UNCHANGED vars

\* one pass of the loop of interactive_menu
interactive_menu(choice, typed, user_id, password, course_code) ==
  LET op == menu_operation(choice, current_user)
  IN \/ op = "login" /\ menu_login(typed, user_id, password)
     \/ op = "register_student_for_course" /\ menu_register(course_code)
     \/ op = "drop_course" /\ menu_drop(course_code)
     \/ op = "get_student_grade_report" /\ get_grade_report(current_user.id)
     \/ op = "logout" /\ logout
     \/ /\ op \in {"exit", "get_all_courses", "get_available_courses",
                   "get_system_statistics", "get_enrollments", None}
        /\ UNCHANGED vars

\* ---------------------------------------------------- concurrent callers
\* Two callers of register_student_for_course whose statements interleave.
\* pc[p] is the line of src/Course.py caller p executes next; the
\* Registration a caller has created and not yet appended to _registrations
\* is referred to as -p, and becomes its position in the list at line 713.
Procs == {1, 2}
Idle == "idle"
NoCall == <<None, None>>

\* the Registration object behind a reference
Object(r) ==
  IF r > 0 THEN registrations[r]
  ELSE [student |-> call[-r][1], course |-> call[-r][2], grade |-> None,
        status |-> "Active"]

\* a reference, once the object of caller p is at position n of the list
Renamed(r, p, n) == IF r = -p THEN n ELSE r

goto(p, line) == pc' = [pc EXCEPT ![p] = line] /\ UNCHANGED <<call, serialized, loaded>>
return(p) ==
  /\ pc' = [pc EXCEPT ![p] = Idle]
  /\ call' = [call EXCEPT ![p] = NoCall]
  /\ UNCHANGED <<serialized, loaded>>

\* the call begins; line 687: if course.status == CourseStatus.CLOSED
race_L687(p, s, c) ==
  /\ pc[p] = Idle
  /\ serialized => \A q \in Procs : pc[q] = Idle
  /\ Len(registrations) + Cardinality({q \in Procs : pc[q] # Idle}) < MaxRegsRace
  /\ IF status[c] = "CLOSED"
     THEN UNCHANGED race
     ELSE /\ pc' = [pc EXCEPT ![p] = "L690"]
          /\ call' = [call EXCEPT ![p] = <<s, c>>]
          /\ UNCHANGED <<serialized, loaded>>
  /\ UNCHANGED <<status, enrolled_students, max_capacity, prerequisites, enrollments,
                 total_credits, teaching_courses, instructor, registrations, gpa,
                 current_user, reg_no, stores>>

\* line 690: if course.status == CourseStatus.FULL
race_L690(p) ==
  /\ pc[p] = "L690"
  /\ IF status[call[p][2]] = "FULL" THEN return(p) ELSE goto(p, "L694")
  /\ UNCHANGED <<status, enrolled_students, max_capacity, prerequisites, enrollments,
                 total_credits, teaching_courses, instructor, registrations, gpa,
                 current_user, reg_no, stores>>

\* lines 694-696: the loop over student.get_enrollments()
race_L694(p) ==
  /\ pc[p] = "L694"
  /\ LET s == call[p][1]
         c == call[p][2]
     IN IF \E i \in 1..Len(enrollments[s]) :
             /\ Object(enrollments[s][i]).course = c
             /\ Object(enrollments[s][i]).status = "Active"
        THEN return(p)
        ELSE goto(p, "L699")
  /\ UNCHANGED <<status, enrolled_students, max_capacity, prerequisites, enrollments,
                 total_credits, teaching_courses, instructor, registrations, gpa,
                 current_user, reg_no, stores>>

\* lines 699-708: the prerequisites, and the creation of the Registration
race_L699(p) ==
  /\ pc[p] = "L699"
  /\ LET s == call[p][1]
         c == call[p][2]
         done == { Object(r).course :
                     r \in { q \in Range(enrollments[s]) :
                               /\ Object(q).grade # None
                               /\ Object(q).grade \notin {"F", "I", "W"} } }
     IN IF \E i \in 1..Len(prerequisites[c]) : prerequisites[c][i] \notin done
        THEN return(p)
        ELSE goto(p, "L438")
  /\ UNCHANGED <<status, enrolled_students, max_capacity, prerequisites, enrollments,
                 total_credits, teaching_courses, instructor, registrations, gpa,
                 current_user, reg_no, stores>>

\* Course.enroll_student, line 438: if self._status == CourseStatus.CLOSED
race_L438(p) ==
  /\ pc[p] = "L438"
  /\ IF status[call[p][2]] = "CLOSED" THEN return(p) ELSE goto(p, "L441")
  /\ UNCHANGED <<status, enrolled_students, max_capacity, prerequisites, enrollments,
                 total_credits, teaching_courses, instructor, registrations, gpa,
                 current_user, reg_no, stores>>

\* Course.enroll_student, line 441: if self.is_full()
race_L441(p) ==
  /\ pc[p] = "L441"
  /\ IF is_full(call[p][2]) THEN goto(p, "L442") ELSE goto(p, "L445")
  /\ UNCHANGED <<status, enrolled_students, max_capacity, prerequisites, enrollments,
                 total_credits, teaching_courses, instructor, registrations, gpa,
                 current_user, reg_no, stores>>

\* lines 442-443: self._status = FULL; return False, and line 716
race_L442(p) ==
  /\ pc[p] = "L442"
  /\ status' = [status EXCEPT ![call[p][2]] = "FULL"]
  /\ return(p)
  /\ UNCHANGED <<enrolled_students, max_capacity, prerequisites, enrollments,
                 total_credits, teaching_courses, instructor, registrations, gpa,
                 current_user, reg_no, stores>>

\* line 445: self._enrolled_students.append(registration)
race_L445(p) ==
  /\ pc[p] = "L445"
  /\ enrolled_students' =
       [enrolled_students EXCEPT ![call[p][2]] = Append(@, -p)]
  /\ goto(p, "L448")
  /\ UNCHANGED <<status, max_capacity, prerequisites, enrollments,
                 total_credits, teaching_courses, instructor, registrations, gpa,
                 current_user, reg_no, stores>>

\* line 448: if self.is_full()
race_L448(p) ==
  /\ pc[p] = "L448"
  /\ IF is_full(call[p][2]) THEN goto(p, "L449") ELSE goto(p, "L203")
  /\ UNCHANGED <<status, enrolled_students, max_capacity, prerequisites, enrollments,
                 total_credits, teaching_courses, instructor, registrations, gpa,
                 current_user, reg_no, stores>>

\* line 449: self._status = FULL
race_L449(p) ==
  /\ pc[p] = "L449"
  /\ status' = [status EXCEPT ![call[p][2]] = "FULL"]
  /\ goto(p, "L203")
  /\ UNCHANGED <<enrolled_students, max_capacity, prerequisites, enrollments,
                 total_credits, teaching_courses, instructor, registrations, gpa,
                 current_user, reg_no, stores>>

\* Student.enroll_course, line 203: if registration not in self._enrollments
race_L203(p) ==
  /\ pc[p] = "L203"
  /\ IF -p \notin Range(enrollments[call[p][1]]) THEN goto(p, "L204") ELSE goto(p, "L713")
  /\ UNCHANGED <<status, enrolled_students, max_capacity, prerequisites, enrollments,
                 total_credits, teaching_courses, instructor, registrations, gpa,
                 current_user, reg_no, stores>>

\* line 204: self._enrollments.append(registration)
race_L204(p) ==
  /\ pc[p] = "L204"
  /\ enrollments' = [enrollments EXCEPT ![call[p][1]] = Append(@, -p)]
  /\ goto(p, "L205")
  /\ UNCHANGED <<status, enrolled_students, max_capacity, prerequisites,
                 total_credits, teaching_courses, instructor, registrations, gpa,
                 current_user, reg_no, stores>>

\* line 205, self._total_credits += registration.course.credits: the read
\* of self._total_credits
race_L205(p) ==
  /\ pc[p] = "L205"
  /\ pc' = [pc EXCEPT ![p] = "L205_STORE"]
  /\ loaded' = [loaded EXCEPT ![p] = total_credits[call[p][1]]]
  /\ UNCHANGED <<call, serialized>>
  /\ UNCHANGED <<status, enrolled_students, max_capacity, prerequisites, enrollments,
                 total_credits, teaching_courses, instructor, registrations, gpa,
                 current_user, reg_no, stores>>

\* line 205: the addition, and the store into self._total_credits
race_L205_STORE(p) ==
  /\ pc[p] = "L205_STORE"
  /\ total_credits' =
       [total_credits EXCEPT ![call[p][1]] = loaded[p] + credits[call[p][2]]]
  /\ pc' = [pc EXCEPT ![p] = "L713"]
  /\ loaded' = [loaded EXCEPT ![p] = 0]
  /\ UNCHANGED <<call, serialized>>
  /\ UNCHANGED <<status, enrolled_students, max_capacity, prerequisites, enrollments,
                 teaching_courses, instructor, registrations, gpa,
                 current_user, reg_no, stores>>

\* line 713: self._registrations.append(registration), and the return
race_L713(p) ==
  /\ pc[p] = "L713"
  /\ LET n == Len(registrations) + 1
     IN /\ registrations' = Append(registrations, Object(-p))
        /\ enrolled_students' =
             [c \in Courses |->
                [i \in 1..Len(enrolled_students[c]) |-> Renamed(enrolled_students[c][i], p, n)]]
        /\ enrollments' =
             [s \in Students |->
                [i \in 1..Len(enrollments[s]) |-> Renamed(enrollments[s][i], p, n)]]
  /\ return(p)
  /\ UNCHANGED <<status, max_capacity, prerequisites, total_credits,
                 teaching_courses, instructor, gpa, current_user, reg_no, stores>>

\* the state after construction
InitSystem ==
  /\ status = [c \in Courses |-> "OPEN"]
  /\ enrolled_students = [c \in Courses |-> << >>]
  /\ max_capacity \in {[c \in Courses |-> n] : n \in 1..MaxCap}
  /\ prerequisites \in PrereqConfigs
  /\ enrollments = [s \in Students |-> << >>]
  /\ total_credits = [s \in Students |-> 0]
  /\ teaching_courses = InitialTeaching
  /\ instructor = InitialInstructor
  /\ registrations = << >>
  /\ gpa = [s \in Students |-> Zero]
  /\ current_user = Nobody
  /\ reg_no = << >>
  /\ pc = [p \in Procs |-> Idle]
  /\ call = [p \in Procs |-> NoCall]
  /\ loaded = [p \in Procs |-> 0]
  /\ students = InitialStudents
  /\ person_password = InitialStudents
  /\ courses = Courses

\* one caller at a time
Init == InitSystem /\ serialized = TRUE

Register(bound) ==
  \E s \in Students, c \in Courses :
    /\ register_result(s, c).ok => Len(registrations) < bound
    /\ register_student_for_course(s, c)
Drop == \E s \in Students, c \in Courses : drop_course(s, c)
AssignGrade ==
  \E p \in Professors, s \in Students, c \in Courses, g \in GradeInputs :
    assign_grade(p, s, c, g)
UpdateCourseStatus == \E c \in Courses, v \in CourseStatus : update_course_status(c, v)

\* the engine operations only: no registrar status override
NextEngine == Register(MaxRegs) \/ Drop \/ AssignGrade
SpecEngine == Init /\ [][NextEngine]_vars

\* ---------------------------------------------------------------------
\* The reports, applied to the states that register and assign_grade leave
\* with every grade of the enumeration: the registrations (in the order of
\* the register calls) are drawn from ReportRosters, each grade from Grade
\* or None.  X is registered after its prerequisite Y was passed; Y may have
\* been graded again since.
ReportRosters ==
  { << >>,
    << <<"s1", "Y">> >>,
    << <<"s1", "Y">>, <<"s1", "X">> >>,
    << <<"s1", "Y">>, <<"s2", "Y">> >> }

\* the positions of a roster that satisfy a test, in order
RECURSIVE PositionsOf(_, _, _)
PositionsOf(roster, i, hits) ==
  IF i > Len(roster) THEN << >>
  ELSE IF i \in hits THEN <<i>> \o PositionsOf(roster, i + 1, hits)
  ELSE PositionsOf(roster, i + 1, hits)

RECURSIVE RosterCredits(_, _)
RosterCredits(roster, list) ==
  IF list = << >> THEN 0
  ELSE credits[roster[Head(list)][2]] + RosterCredits(roster, Tail(list))

InitReports ==
  \E roster \in ReportRosters :
    \E grades \in [1..Len(roster) -> Grade \cup {None}] :
      LET ofCourse(c) == PositionsOf(roster, 1, {i \in 1..Len(roster) : roster[i][2] = c})
          ofStudent(s) == PositionsOf(roster, 1, {i \in 1..Len(roster) : roster[i][1] = s})
      IN /\ max_capacity \in {[c \in Courses |-> n] : n \in 1..MaxCap}
         /\ \A c \in Courses : Len(ofCourse(c)) <= max_capacity[c]
         /\ prerequisites \in PrereqConfigs
         /\ \A i \in 1..Len(roster) : roster[i][2] \notin Range(prerequisites[roster[i][2]])
         /\ registrations = [i \in 1..Len(roster) |->
                               [student |-> roster[i][1], course |-> roster[i][2],
                                grade |-> grades[i], status |-> "Active"]]
         /\ enrolled_students = [c \in Courses |-> ofCourse(c)]
         /\ status = [c \in Courses |->
                        IF Len(ofCourse(c)) >= max_capacity[c] THEN "FULL" ELSE "OPEN"]
         /\ enrollments = [s \in Students |-> ofStudent(s)]
         /\ total_credits = [s \in Students |-> RosterCredits(roster, ofStudent(s))]
         /\ teaching_courses = InitialTeaching
         /\ instructor = InitialInstructor
         /\ gpa = [s \in Students |-> Zero]
         /\ current_user = Nobody
         /\ reg_no = << >>
         /\ pc = [p \in Procs |-> Idle]
         /\ call = [p \in Procs |-> NoCall]
         /\ loaded = [p \in Procs |-> 0]
         /\ students = InitialStudents
         /\ person_password = InitialStudents
         /\ courses = Courses
         /\ serialized = TRUE

CalculateGpa == \E s \in Students : calculate_gpa(s)
GradeReport == \E s \in Students : get_grade_report(s)
EnrollmentReport == \E c \in Courses : get_course_enrollment_report(c)
SystemStatistics == system_statistics
NextReports == CalculateGpa \/ GradeReport \/ EnrollmentReport \/ SystemStatistics
SpecReports == InitReports /\ [][NextReports]_vars

\* the session on its own: choice "1" with every typed registration number,
\* RegistrationSystem.login called directly, and logout
MenuLogin ==
  \E typed \in TypedRegNos, user_id \in UserIds, password \in Passwords :
    menu_login(typed, user_id, password)
Login == \E user_id \in UserIds, password \in Passwords : login(user_id, password)
Logout == logout
NextLogin == MenuLogin \/ Login \/ Logout
SpecLogin == Init /\ [][NextLogin]_vars

\* the command surface: one pass of the loop with what is typed in it (a
\* choice, and the inputs that choice reads)
MenuRegNos ==
  { <<"2","4">> \o <<"B","E","T">> \o <<"1","0","0","0","1">>,
    <<"2","4">> \o <<"b","e","t">> \o <<"1","0","0","0","1">>,
    <<"3","0">> \o <<"B","E","T">> \o <<"1","0","0","0","1">> }
MenuInputs ==
  {<<"1", typed, user_id, password, "Q">> :
     typed \in MenuRegNos, user_id \in UserIds, password \in Passwords}
  \cup {<<choice, << >>, "zz", "pw1", course_code>> :
          choice \in {"5", "6"}, course_code \in CourseCodes}
  \cup {<<choice, << >>, "zz", "pw1", "Q">> : choice \in Choices \ {"1", "5", "6"}}
Menu ==
  \E in \in MenuInputs :
    /\ (in[1] = "5" /\ current_user.role = "Student" /\ in[5] \in Courses
          /\ register_result(current_user.id, in[5]).ok)
         => Len(registrations) < MaxRegsMenu
    /\ interactive_menu(in[1], in[2], in[3], in[4], in[5])
NextMenu == Menu
SpecMenu == Init /\ [][NextMenu]_vars

\* Registrar.remove_student(system, student_id)
remove_student(student_id) ==
  /\ students' = IF student_id \in DOMAIN students
                 THEN [s \in DOMAIN students \ {student_id} |-> students[s]]
                 ELSE students
  /\ UNCHANGED <<status, enrolled_students, max_capacity, prerequisites, enrollments,
                 total_credits, teaching_courses, instructor, registrations, gpa,
                 current_user, reg_no, race, courses, person_password>>

\* Registrar.remove_course(system, course_code)
registrar_remove_course(course_code) ==
  /\ courses' = IF course_code \in courses THEN courses \ {course_code} ELSE courses
  /\ UNCHANGED <<status, enrolled_students, max_capacity, prerequisites, enrollments,
                 total_credits, teaching_courses, instructor, registrations, gpa,
                 current_user, reg_no, race, students, person_password>>

\* Registrar.add_student(system, student), called with the Student object
\* that the id student_id last named in the store:
\* system._students[student.user_id] = student
registrar_add_student(student_id) ==
  /\ students' = [s \in DOMAIN students \cup {student_id} |->
                    IF s = student_id THEN person_password[student_id] ELSE students[s]]
  /\ UNCHANGED <<status, enrolled_students, max_capacity, prerequisites, enrollments,
                 total_credits, teaching_courses, instructor, registrations, gpa,
                 current_user, reg_no, race, courses, person_password>>

\* Registrar.add_course(system, course), called with the Course object that
\* the code course_code last named in the store:
\* system._courses[course.course_code] = course
registrar_add_course(course_code) ==
  /\ courses' = courses \cup {course_code}
  /\ UNCHANGED <<status, enrolled_students, max_capacity, prerequisites, enrollments,
                 total_credits, teaching_courses, instructor, registrations, gpa,
                 current_user, reg_no, race, students, person_password>>

\* RegistrationSystem.add_student(student_id, name, email, password,
\* department, admission_year), and Registrar.add_student called with a
\* newly constructed Student: a new Student object (empty enrollment list,
\* no credits, GPA 0.0) is stored under the id, whatever the id named
\* before.  The fields of a student id are those of the object the id names
\* in the store; the Registrations of the object it named before stay in
\* the system list and in the lists of the courses, with the same id.
add_student(student_id, pw) ==
  /\ enrollments' = [enrollments EXCEPT ![student_id] = << >>]
  /\ gpa' = [gpa EXCEPT ![student_id] = Zero]
  /\ total_credits' = [total_credits EXCEPT ![student_id] = 0]
  /\ person_password' = [person_password EXCEPT ![student_id] = pw]
  /\ students' = [s \in DOMAIN students \cup {student_id} |->
                    IF s = student_id THEN pw ELSE students[s]]
  /\ UNCHANGED <<status, enrolled_students, max_capacity, prerequisites,
                 teaching_courses, instructor, registrations,
                 current_user, reg_no, race, courses>>

\* RegistrationSystem.add_course(course_code, name, credits, department,
\* max_capacity, semester, year), and Registrar.add_course called with a
\* newly constructed Course: a new Course object (OPEN, nobody enrolled, no
\* prerequisites, no instructor) is stored under the code, whatever the code
\* named before; it is given the name and the credits of the code.  The
\* fields of a course code are those of the object the code names in the
\* store; the Registrations of the object it named before stay in the
\* system list and in the lists of the students, and the teaching lists of
\* the professors keep that object.  register_student_for_course and
\* drop_course compare courses by course_code.
add_course(course_code, capacity) ==
  /\ status' = [status EXCEPT ![course_code] = "OPEN"]
  /\ enrolled_students' = [enrolled_students EXCEPT ![course_code] = << >>]
  /\ max_capacity' = [max_capacity EXCEPT ![course_code] = capacity]
  /\ prerequisites' = [prerequisites EXCEPT ![course_code] = << >>]
  /\ instructor' = [instructor EXCEPT ![course_code] = None]
  /\ courses' = courses \cup {course_code}
  /\ UNCHANGED <<enrollments, total_credits, teaching_courses, registrations, gpa,
                 current_user, reg_no, race, students, person_password>>

\* Registrar.generate_system_report(system)
generate_system_report ==
  LET RECURSIVE Sum(_)
      Sum(set) == IF set = {} THEN 0
                  ELSE LET c == CHOOSE x \in set : TRUE
                       IN Len(enrolled_students[c]) + Sum(set \ {c})
  IN [total_students |-> Cardinality(DOMAIN students),
      total_courses |-> Cardinality(courses),
      total_professors |-> Cardinality(DOMAIN professors),
      total_enrollments |-> Sum(courses)]

\* register and drop for the students and courses found in the stores
\* (get_student, get_course), and the removals and additions of a registrar
\* and of the system, for two of the students
StoreStudents == {"s1", "s2"}
RegisterStored ==
  \E s \in DOMAIN students \cap StoreStudents, c \in courses :
    /\ register_result(s, c).ok => Len(registrations) < MaxRegsStore
    /\ register_student_for_course(s, c)
DropStored ==
  \E s \in DOMAIN students \cap StoreStudents, c \in courses : drop_course(s, c)
RemoveStudent ==
  \E student_id \in StoreStudents \cup {"zz"} : remove_student(student_id)
RegistrarRemoveCourse ==
  \E course_code \in CourseCodes : registrar_remove_course(course_code)
NextStore ==
  \/ RegisterStored \/ DropStored \/ RemoveStudent \/ RegistrarRemoveCourse
  \/ \E student_id \in StoreStudents : registrar_add_student(student_id)
  \/ \E course_code \in Courses : registrar_add_course(course_code)
  \/ \E student_id \in StoreStudents, pw \in Passwords : add_student(student_id, pw)
  \/ \E course_code \in Courses, capacity \in 1..MaxCap : add_course(course_code, capacity)
SpecStore == Init /\ [][NextStore]_vars

\* Course.add_prerequisite(course), called on c
add_prerequisite(c, course) ==
  /\ prerequisites' =
       [prerequisites EXCEPT ![c] = IF course \notin Range(@) THEN Append(@, course) ELSE @]
  /\ UNCHANGED <<aux, status, enrolled_students, max_capacity, enrollments,
                 total_credits, teaching_courses, instructor, registrations>>

\* the engine over every prerequisite relation: the courses are created
\* without prerequisites, and add_prerequisite is called while no
\* registration exists
InitPrereq ==
  /\ status = [c \in Courses |-> "OPEN"]
  /\ enrolled_students = [c \in Courses |-> << >>]
  /\ max_capacity \in {[c \in Courses |-> n] : n \in 1..MaxCap}
  /\ prerequisites = [c \in Courses |-> << >>]
  /\ enrollments = [s \in Students |-> << >>]
  /\ total_credits = [s \in Students |-> 0]
  /\ teaching_courses = InitialTeaching
  /\ instructor = InitialInstructor
  /\ registrations = << >>
  /\ gpa = [s \in Students |-> Zero]
  /\ current_user = Nobody
  /\ reg_no = << >>
  /\ pc = [p \in Procs |-> Idle]
  /\ call = [p \in Procs |-> NoCall]
  /\ loaded = [p \in Procs |-> 0]
  /\ students = InitialStudents
  /\ person_password = InitialStudents
  /\ courses = Courses
  /\ serialized = TRUE
AddPrerequisite ==
  \E c \in Courses, course \in Courses :
    registrations = << >> /\ add_prerequisite(c, course)
NextPrereq == AddPrerequisite \/ Register(MaxRegsPrereq) \/ Drop \/ AssignGrade
SpecPrereq == InitPrereq /\ [][NextPrereq]_vars

\* the callers of register_student_for_course, with and without mutual
\* exclusion of the calls
RaceStudents == {"s1", "s2"}
InitRace == InitSystem /\ serialized \in BOOLEAN
NextRace ==
  \E p \in Procs :
    \/ \E s \in RaceStudents, c \in Courses : race_L687(p, s, c)
    \/ race_L690(p) \/ race_L694(p) \/ race_L699(p)
    \/ race_L438(p) \/ race_L441(p) \/ race_L442(p) \/ race_L445(p)
    \/ race_L448(p) \/ race_L449(p)
    \/ race_L203(p) \/ race_L204(p) \/ race_L205(p) \/ race_L205_STORE(p)
    \/ race_L713(p)
SpecRace == InitRace /\ [][NextRace]_vars

Next == Register(MaxRegsOverride) \/ Drop \/ AssignGrade \/ UpdateCourseStatus
Spec == Init /\ [][Next]_vars

\* the roster operations of the professors, on their own
AssignCourse == \E p \in Professors, c \in Courses : assign_course(p, c)
RemoveCourse == \E p \in Professors, c \in Courses : remove_course(p, c)
NextRoster == AssignCourse \/ RemoveCourse
SpecRoster == Init /\ [][NextRoster]_vars

\* ------------------------------------------------ vocabulary of the claims
\* positions in the system-wide list of the ACTIVE registrations of a course
ActiveOfCourse(c) ==
  {i \in 1..Len(registrations) :
     registrations[i].course = c /\ registrations[i].status = "Active"}

\* the active enrollment count of a course
ActiveEnrollmentCount(c) == Cardinality(ActiveOfCourse(c))

\* positions in the system-wide list of the ACTIVE registrations of a pair
ActiveOfPair(s, c) ==
  {i \in ActiveOfCourse(c) : registrations[i].student = s}

\* positions in the system-wide list of the DROPPED registrations of a pair
DroppedOfPair(s, c) ==
  {i \in 1..Len(registrations) :
     /\ registrations[i].student = s
     /\ registrations[i].course = c
     /\ registrations[i].status = "Dropped"}

\* the student holds an ACTIVE registration for the course
HasActive(s, c) == ActiveOfPair(s, c) # {}

\* the student's enrollment list holds a registration for course y whose
\* grade is set and is not F, INCOMPLETE or WITHDRAWAL
Satisfies(s, y) ==
  \E j \in 1..Len(enrollments[s]) :
    LET reg == registrations[enrollments[s][j]]
    IN reg.course = y /\ reg.grade # None /\ reg.grade \notin {"F", "I", "W"}

\* positions of the prerequisites of c that s does not satisfy
Unmet(s, c) == {i \in 1..Len(prerequisites[c]) : ~Satisfies(s, prerequisites[c][i])}

PrereqMessages(c) == {MsgPrereq \o name[y] : y \in Range(prerequisites[c])}

\* ------------------------------------------------------------------ claims
\* C1: without registrar status override, in every reachable state each
\* course's status is FULL exactly when its active enrollment count is >= its
\* capacity, and OPEN otherwise.
C1_StatusFollowsCount ==
  \A c \in Courses :
    status[c] = IF ActiveEnrollmentCount(c) >= max_capacity[c] THEN "FULL" ELSE "OPEN"

\* a course that filled up, lost a student and is full again
C1_Witness ==
  \E c \in Courses, s \in Students :
    /\ status[c] = "FULL"
    /\ ActiveEnrollmentCount(c) = max_capacity[c]
    /\ DroppedOfPair(s, c) # {}

\* C2: under register, drop, assignGrade and registrar status overrides, the
\* number of registrations in a course's enrolled list never exceeds the
\* course's capacity.
C2_CapacityNeverExceeded ==
  \A c \in Courses : Len(enrolled_students[c]) <= max_capacity[c]

\* a full course whose status a registrar forced back to OPEN: only the
\* check at insertion time keeps a further student out
C2_Witness ==
  \E c \in Courses, s \in Students :
    /\ Len(enrolled_students[c]) = max_capacity[c]
    /\ status[c] = "OPEN"
    /\ register_checks(s, c) = None

\* C3: in every reachable state there is at most one ACTIVE registration per
\* (student, course) pair, in the student's enrollment list and in the
\* system-wide registration list.
C3_OneActivePerPair ==
  \A s \in Students, c \in Courses :
    /\ Cardinality(ActiveOfPair(s, c)) <= 1
    /\ Cardinality({j \in 1..Len(enrollments[s]) :
                      /\ registrations[enrollments[s][j]].course = c
                      /\ registrations[enrollments[s][j]].status = "Active"}) <= 1

\* a student who dropped a course and registered for it again
C3_Witness ==
  \E s \in Students, c \in Courses :
    /\ Cardinality(ActiveOfPair(s, c)) = 1
    /\ Cardinality(DroppedOfPair(s, c)) >= 1
    /\ \E j \in 1..Len(enrollments[s]) : registrations[enrollments[s][j]].course = c

\* C4: register() on a CLOSED course fails with "Course is closed for
\* registration" whatever the student, the enrollment count or the
\* prerequisites, and no Registration is created or stored anywhere.
C4_ClosedRejects ==
  /\ [](\A s \in Students, c \in Courses :
          status[c] = "CLOSED" => register_result(s, c) = [ok |-> FALSE, msg |-> MsgClosed])
  /\ [][\A s \in Students, c \in Courses :
          (status[c] = "CLOSED" /\ register_student_for_course(s, c))
             => UNCHANGED <<registrations, enrolled_students, enrollments, total_credits>>]_vars

\* a CLOSED course with a free seat and a student who passes every other check
C4_Witness ==
  \E s \in Students, c \in Courses :
    /\ status[c] = "CLOSED"
    /\ Len(enrolled_students[c]) < max_capacity[c]
    /\ ~HasActive(s, c)
    /\ Unmet(s, c) = {}

\* C5 as stated: in any reachable state in which a course's active enrollment
\* count equals its capacity, register() for that course by any student fails
\* with "Course is full".
C5_Original ==
  \A s \in Students, c \in Courses :
    ActiveEnrollmentCount(c) = max_capacity[c]
      => register_result(s, c) = [ok |-> FALSE, msg |-> MsgFull]

\* C5 amended: in any reachable state in which a course's active enrollment
\* count equals its capacity, register() for that course by any student
\* fails; the message is "Course is full" when the status is FULL, "Course is
\* closed for registration" when a registrar closed the course, and when a
\* registrar forced the status to OPEN it is the message of the next failing
\* check: already enrolled, prerequisite not met, or "Failed to register for
\* course".
C5_FullRejects ==
  \A s \in Students, c \in Courses :
    ActiveEnrollmentCount(c) = max_capacity[c]
      => /\ ~register_result(s, c).ok
         /\ status[c] = "FULL" => register_result(s, c).msg = MsgFull
         /\ status[c] = "CLOSED" => register_result(s, c).msg = MsgClosed
         /\ status[c] = "OPEN" =>
              register_result(s, c).msg \in {MsgAlready, MsgFailed} \cup PrereqMessages(c)

\* a full course forced to OPEN, and a student the insertion check turns away
C5_Witness ==
  \E s \in Students, c \in Courses :
    /\ ActiveEnrollmentCount(c) = max_capacity[c]
    /\ status[c] = "OPEN"
    /\ register_result(s, c).msg = MsgFailed

\* C6 as stated: while a student holds the ACTIVE registration of a
\* successful register (no drop since), a further register for the same pair
\* fails with "Already enrolled in this course".
C6_Original ==
  \A s \in Students, c \in Courses :
    HasActive(s, c) => register_result(s, c) = [ok |-> FALSE, msg |-> MsgAlready]

\* C6 amended: while a student holds the ACTIVE registration of a successful
\* register (no drop since), a further register for the same pair fails; the
\* message is "Already enrolled in this course" when the course's status is
\* OPEN, "Course is full" when it is FULL (as it is right after a register
\* that took the last seat, e.g. with capacity 1) and "Course is closed for
\* registration" when it is CLOSED.
C6_SecondRegisterFails ==
  \A s \in Students, c \in Courses :
    HasActive(s, c) =>
      register_result(s, c) =
        [ok |-> FALSE,
         msg |-> IF status[c] = "CLOSED" THEN MsgClosed
                 ELSE IF status[c] = "FULL" THEN MsgFull
                 ELSE MsgAlready]

\* a student enrolled in a course that still has a free seat
C6_Witness ==
  \E s \in Students, c \in Courses :
    /\ HasActive(s, c)
    /\ status[c] = "OPEN"
    /\ Len(enrolled_students[c]) < max_capacity[c]
    /\ register_result(s, c).msg = MsgAlready

\* the step is a successful drop(s, c)
DropStep(s, c) ==
  /\ \E i \in ActiveOfPair(s, c) : registrations'[i].status = "Dropped"
  /\ drop_course(s, c)

\* the step is a successful register(s, c)
RegisterStep(s, c) ==
  Len(registrations') > Len(registrations) /\ register_student_for_course(s, c)

\* C7 as stated: for a student holding an ACTIVE registration, a successful
\* drop() followed by register() for the same pair succeeds.
C7_Original ==
  [][\A s \in Students, c \in Courses :
       DropStep(s, c) => (register_result(s, c).ok)']_vars

\* C7 amended: for a student holding an ACTIVE registration, a successful
\* drop() marks it DROPPED and keeps it in the system registration list; a
\* register() for the same pair right after the drop succeeds exactly when
\* the course is not CLOSED and the student (still) satisfies every
\* prerequisite of the course, and a successful register() appends a new
\* ACTIVE Registration without a grade, distinct from the dropped one, which
\* stays in the system list with status DROPPED.
C7_DropThenRegister ==
  [][\A s \in Students, c \in Courses :
       /\ DropStep(s, c) =>
            /\ \E i \in ActiveOfPair(s, c) :
                 /\ registrations'[i].status = "Dropped"
                 /\ Len(registrations') = Len(registrations)
            /\ (register_result(s, c).ok)' <=> (status[c] # "CLOSED" /\ Unmet(s, c) = {})'
       /\ RegisterStep(s, c) =>
            /\ Len(registrations') = Len(registrations) + 1
            /\ registrations'[Len(registrations')] =
                 [student |-> s, course |-> c, grade |-> None, status |-> "Active"]
            /\ \A i \in 1..Len(registrations) : registrations'[i] = registrations[i]
            /\ enrollments'[s][Len(enrollments'[s])] = Len(registrations')
            /\ \A i \in DroppedOfPair(s, c) : i \notin Range(enrollments'[s])]_vars

\* a dropped registration and, after it in the system list, the new ACTIVE
\* registration of the same pair
C7_Witness ==
  \E s \in Students, c \in Courses :
    \E i \in DroppedOfPair(s, c), j \in ActiveOfPair(s, c) :
      /\ i < j
      /\ registrations[i].grade = "W"
      /\ j \in Range(enrollments[s])
      /\ j \in Range(enrolled_students[c])

\* C8: for a course with no prerequisites and capacity N (no registrar
\* override): once N students are registered the status is FULL and a further
\* student's register fails with "Course is full"; when an enrolled student
\* drops, the status reverts to OPEN and the register of any student without
\* an ACTIVE registration for the course, the rejected one included, succeeds.
C8_FullThenReopen ==
  /\ [](\A c \in Courses :
          (prerequisites[c] = << >> /\ ActiveEnrollmentCount(c) = max_capacity[c]) =>
             /\ status[c] = "FULL"
             /\ \A s \in Students :
                  ~HasActive(s, c) => register_result(s, c) = [ok |-> FALSE, msg |-> MsgFull])
  /\ [][\A c \in Courses, s \in Students :
          (prerequisites[c] = << >> /\ status[c] = "FULL" /\ DropStep(s, c)) =>
             /\ status'[c] = "OPEN"
             /\ \A s2 \in Students :
                  (~HasActive(s2, c))' =>
                     (register_result(s2, c) = [ok |-> TRUE, msg |-> MsgRegistered])']_vars

\* capacity 1: a student dropped the course and another one, who could not
\* get in while it was full, holds the seat now
C8_Witness ==
  \E c \in Courses, s \in Students, s2 \in Students :
    /\ s2 # s
    /\ prerequisites[c] = << >>
    /\ \E i \in DroppedOfPair(s, c), j \in ActiveOfPair(s2, c) : i < j
    /\ ActiveEnrollmentCount(c) = max_capacity[c]
    /\ status[c] = "FULL"
    /\ ~HasActive(s, c)
    /\ register_result(s, c).msg = MsgFull

\* C9: when the course is neither CLOSED nor FULL and the student has no
\* ACTIVE registration for it, register succeeds only if the student
\* satisfies every prerequisite (a registration in the enrollment list whose
\* grade is set and is not F, INCOMPLETE or WITHDRAWAL); otherwise it fails
\* with "Prerequisite not met: <name>" naming the first unmet prerequisite in
\* the course's prerequisite order.
C9_Prerequisites ==
  \A s \in Students, c \in Courses :
    (status[c] \notin {"CLOSED", "FULL"} /\ ~HasActive(s, c)) =>
       /\ register_result(s, c).ok => Unmet(s, c) = {}
       /\ Unmet(s, c) # {} =>
            LET first == CHOOSE i \in Unmet(s, c) : \A j \in Unmet(s, c) : i <= j
            IN register_result(s, c) =
                 [ok |-> FALSE, msg |-> MsgPrereq \o name[prerequisites[c][first]]]

\* a student graded B- in the prerequisite and then registered for the course
C9_Witness ==
  \E s \in Students, c \in Courses :
    /\ prerequisites[c] # << >>
    /\ \E j \in ActiveOfPair(s, c), i \in 1..Len(registrations) :
         /\ i < j
         /\ registrations[i].student = s
         /\ registrations[i].course \in Range(prerequisites[c])
         /\ registrations[i].grade = "B-"

\* C10: a prerequisite registration that is not yet graded does not satisfy
\* the prerequisite: register fails whenever the student's registration for
\* a prerequisite has no grade or has the grade NOT_GRADED, with
\* "Prerequisite not met" when no earlier check fails.
C10_UngradedFails ==
  \A s \in Students, c \in Courses :
    (\E y \in Range(prerequisites[c]) :
       \E j \in 1..Len(enrollments[s]) :
         /\ registrations[enrollments[s][j]].course = y
         /\ registrations[enrollments[s][j]].grade \in {None, "NG"})
    => /\ ~register_result(s, c).ok
       /\ (status[c] = "OPEN" /\ ~HasActive(s, c)) =>
             register_result(s, c).msg \in PrereqMessages(c)

\* C11: register() evaluates its preconditions in the order CLOSED, FULL,
\* already enrolled, prerequisites and returns the message of the first one
\* that fails: a CLOSED course yields the closed message and a FULL course
\* "Course is full", even if the student is already enrolled or lacks a
\* prerequisite.
C11_CheckOrder ==
  \A s \in Students, c \in Courses :
    LET res == register_result(s, c)
    IN /\ status[c] = "CLOSED" => res = [ok |-> FALSE, msg |-> MsgClosed]
       /\ status[c] = "FULL" => res = [ok |-> FALSE, msg |-> MsgFull]
       /\ (status[c] = "OPEN" /\ HasActive(s, c)) => res = [ok |-> FALSE, msg |-> MsgAlready]
       /\ (status[c] = "OPEN" /\ ~HasActive(s, c) /\ Unmet(s, c) # {}) =>
            (~res.ok /\ res.msg \in PrereqMessages(c))

\* a FULL course, a student enrolled in it who no longer satisfies its
\* prerequisite: three checks fail at once
C11_Witness ==
  \E s \in Students, c \in Courses :
    /\ status[c] = "FULL"
    /\ HasActive(s, c)
    /\ Unmet(s, c) # {}
    /\ register_result(s, c).msg = MsgFull

\* C12: a successful register(student, course) creates exactly one new
\* Registration, ACTIVE and without grade, appends it to the course's
\* enrolled list, to the student's enrollment list and to the system list,
\* adds the course's credits to the student's total, sets the course status
\* to FULL if the enrolled count is now >= capacity, and changes nothing of
\* any other student, course or registration.
C12_RegisterEffect ==
  [][\A s \in Students, c \in Courses :
       RegisterStep(s, c) =>
         LET new == Len(registrations) + 1
         IN /\ registrations' = Append(registrations,
                 [student |-> s, course |-> c, grade |-> None, status |-> "Active"])
            /\ enrolled_students'[c] = Append(enrolled_students[c], new)
            /\ enrollments'[s] = Append(enrollments[s], new)
            /\ total_credits'[s] = total_credits[s] + credits[c]
            /\ status'[c] = IF Len(enrolled_students'[c]) >= max_capacity[c]
                            THEN "FULL" ELSE status[c]
            /\ \A c2 \in Courses \ {c} :
                 /\ status'[c2] = status[c2]
                 /\ enrolled_students'[c2] = enrolled_students[c2]
            /\ \A s2 \in Students \ {s} :
                 /\ enrollments'[s2] = enrollments[s2]
                 /\ total_credits'[s2] = total_credits[s2]
            /\ UNCHANGED <<max_capacity, prerequisites, teaching_courses, instructor>>]_vars

\* a second student took the last seat of a course of capacity 2 while the
\* first one keeps the seat and the credits
C12_Witness ==
  \E c \in Courses, s \in Students, s2 \in Students :
    /\ s # s2
    /\ max_capacity[c] = 2
    /\ status[c] = "FULL"
    /\ \E i \in ActiveOfPair(s, c), j \in ActiveOfPair(s2, c) :
         /\ i < j
         /\ enrolled_students[c] = <<i, j>>
         /\ registrations[j].grade = None
    /\ total_credits[s2] = credits[c]

\* C13: a successful drop(student, course) sets the registration's status to
\* DROPPED and its grade to WITHDRAWAL, removes it from the course's enrolled
\* list, subtracts the course's credits from the student's total, and sets
\* the course status to OPEN if it was FULL and the enrolled count is now
\* below capacity; no other student, course or registration changes.
C13_DropEffect ==
  [][\A s \in Students, c \in Courses :
       DropStep(s, c) =>
         \E r \in ActiveOfPair(s, c) :
            /\ registrations' = [registrations EXCEPT ![r].status = "Dropped",
                                                      ![r].grade = "W"]
            /\ r \in Range(enrolled_students[c])
            /\ enrolled_students'[c] = Remove(enrolled_students[c], r)
            /\ r \notin Range(enrolled_students'[c])
            /\ total_credits'[s] = total_credits[s] - credits[c]
            /\ status'[c] = IF status[c] = "FULL"
                               /\ Len(enrolled_students'[c]) < max_capacity[c]
                            THEN "OPEN" ELSE status[c]
            /\ \A c2 \in Courses \ {c} :
                 /\ status'[c2] = status[c2]
                 /\ enrolled_students'[c2] = enrolled_students[c2]
            /\ \A s2 \in Students \ {s} :
                 /\ enrollments'[s2] = enrollments[s2]
                 /\ total_credits'[s2] = total_credits[s2]
            /\ UNCHANGED <<max_capacity, prerequisites, teaching_courses, instructor>>]_vars

\* a graded registration was dropped from a course that another student
\* still attends
C13_Witness ==
  \E c \in Courses, s \in Students, s2 \in Students :
    /\ s # s2
    /\ \E i \in DroppedOfPair(s, c) : registrations[i].grade = "W"
    /\ ~HasActive(s, c)
    /\ HasActive(s2, c)
    /\ status[c] = "OPEN"
    /\ max_capacity[c] = 2
    /\ total_credits[s] = 0

\* C14: drop(student, course) succeeds if and only if the student currently
\* has an ACTIVE registration for that course; otherwise it fails with "Not
\* enrolled in this course": so does a second drop with no register in
\* between, and a drop by a student who never registered.
C14_DropIffActive ==
  /\ [](\A s \in Students, c \in Courses :
          drop_result(s, c) = IF HasActive(s, c)
                              THEN [ok |-> TRUE, msg |-> MsgDropped]
                              ELSE [ok |-> FALSE, msg |-> MsgNotEnrolled])
  /\ [][\A s \in Students, c \in Courses : ~HasActive(s, c) => ~drop_course(s, c)]_vars

\* a student who dropped a course, holds another one, and would drop the
\* first a second time
C14_Witness ==
  \E s \in Students, c \in Courses, c2 \in Courses :
    /\ c2 # c
    /\ DroppedOfPair(s, c) # {}
    /\ ~HasActive(s, c)
    /\ HasActive(s, c2)
    /\ drop_result(s, c).msg = MsgNotEnrolled

\* the sum of the credits of the registrations at the given positions
RECURSIVE CreditsOfList(_)
CreditsOfList(list) ==
  IF list = <<>> THEN 0
  ELSE credits[registrations[Head(list)].course] + CreditsOfList(Tail(list))

RECURSIVE CreditsOfSet(_)
CreditsOfSet(set) ==
  IF set = {} THEN 0
  ELSE LET r == CHOOSE x \in set : TRUE
       IN credits[registrations[r].course] + CreditsOfSet(set \ {r})

\* the ACTIVE registrations of a student in the system list
ActiveOfStudent(s) ==
  {i \in 1..Len(registrations) :
     registrations[i].student = s /\ registrations[i].status = "Active"}

\* the registrations a student ever had for a course, in the system list
RegistrationsOfPair(s, c) ==
  {i \in 1..Len(registrations) :
     registrations[i].student = s /\ registrations[i].course = c}

\* C15: a course's status enters or leaves CLOSED only through the
\* registrar's override: no register, drop or assignGrade changes a status
\* from or to CLOSED, and a drop on a CLOSED course succeeds while the course
\* stays CLOSED.
C15_ClosedOnlyByOverride ==
  /\ [](\A s \in Students, c \in Courses :
          (status[c] = "CLOSED" /\ HasActive(s, c)) => drop_result(s, c).ok)
  /\ [][\A c \in Courses :
          ((status'[c] = "CLOSED") # (status[c] = "CLOSED")) =>
             /\ ~\E s \in Students, c2 \in Courses :
                   register_student_for_course(s, c2) \/ drop_course(s, c2)
             /\ ~\E p \in Professors, s \in Students, c2 \in Courses :
                   /\ assign_grade_result(p, s, c2).ok
                   /\ \E g \in GradeInputs : assign_grade(p, s, c2, g)]_vars

\* a CLOSED course that one student left and another still attends
C15_Witness ==
  \E c \in Courses, s \in Students, s2 \in Students :
    /\ s # s2
    /\ status[c] = "CLOSED"
    /\ DroppedOfPair(s, c) # {}
    /\ ~HasActive(s, c)
    /\ HasActive(s2, c)
    /\ Len(enrolled_students[c]) < max_capacity[c]

\* C16: each student's total_credits is the sum of the credits of the
\* registrations in the student's enrollment list, which is also the sum of
\* the credits of the student's ACTIVE registrations.
C16_CreditsAreActiveCredits ==
  \A s \in Students :
    /\ total_credits[s] = CreditsOfList(enrollments[s])
    /\ total_credits[s] = CreditsOfSet(ActiveOfStudent(s))
    /\ Range(enrollments[s]) = ActiveOfStudent(s)

\* a student who dropped a course and registered for it again: one DROPPED
\* and one ACTIVE registration, the credits of one
C16_Witness ==
  \E s \in Students, c \in Courses :
    /\ DroppedOfPair(s, c) # {}
    /\ HasActive(s, c)
    /\ total_credits[s] = credits[c]
    /\ Len(enrollments[s]) = 1

\* C17: assignGrade changes a grade only when the course is in the
\* professor's teaching list: a professor without the course gets a failure
\* and no grade changes; a professor with the course, for a student with a
\* registration for the course, succeeds and the registration's grade
\* becomes exactly the given grade.
C17_GradeOnlyByTeacher ==
  /\ [](\A p \in Professors, s \in Students, c \in Courses :
          /\ c \notin Range(teaching_courses[p]) => ~assign_grade_result(p, s, c).ok
          /\ (c \in Range(teaching_courses[p]) /\ RegistrationsOfPair(s, c) # {})
               => assign_grade_result(p, s, c) = [ok |-> TRUE, msg |-> MsgGraded])
  /\ [][\A p \in Professors, s \in Students, c \in Courses, g \in GradeInputs :
          assign_grade(p, s, c, g) =>
            /\ c \in Range(teaching_courses[p])
            /\ \E r \in RegistrationsOfPair(s, c) :
                 registrations' = [registrations EXCEPT ![r].grade = g]]_vars

\* C18: assignGrade finds the student's registration whatever its status:
\* for a DROPPED registration, assignGrade by the course's professor succeeds,
\* and it fails with "Student not enrolled in course" only when the student
\* never had a registration for the course.
C18_GradeAnyStatus ==
  \A p \in Professors, s \in Students, c \in Courses :
    /\ (c \in Range(teaching_courses[p]) /\ DroppedOfPair(s, c) # {})
         => assign_grade_result(p, s, c).ok
    /\ assign_grade_result(p, s, c).msg = MsgStudentNotEnrolled
         => RegistrationsOfPair(s, c) = {}

\* C19: after any sequence of assignCourse and remove-course operations of
\* the professors, a course is in a professor's teaching list if and only if
\* the course's instructor is that professor.
C19_RosterAgrees ==
  \A p \in Professors, c \in Courses :
    (c \in Range(teaching_courses[p])) <=> (instructor[c] = p)

\* C20: the system-wide registration list only grows: it gains exactly one
\* Registration on each successful register and none on a failed register,
\* a drop, an assignGrade or a registrar operation; no Registration is ever
\* removed, and a status only moves from ACTIVE to DROPPED.
C20_RegistrationsOnlyGrow ==
  [][/\ Len(registrations') \in {Len(registrations), Len(registrations) + 1}
     /\ \A i \in 1..Len(registrations) :
          /\ registrations'[i].student = registrations[i].student
          /\ registrations'[i].course = registrations[i].course
          /\ registrations[i].status = "Dropped" => registrations'[i].status = "Dropped"
     /\ \A s \in Students, c \in Courses :
          IF register_result(s, c).ok
          THEN Len(registrations') = Len(registrations) =>
                 ~register_student_for_course(s, c)
          ELSE Len(registrations') # Len(registrations) =>
                 ~register_student_for_course(s, c)
     /\ Len(registrations') # Len(registrations) =>
          /\ \E s \in Students, c \in Courses :
               register_result(s, c).ok /\ register_student_for_course(s, c)
          /\ ~(Drop \/ AssignGrade \/ UpdateCourseStatus)]_vars

\* two registrations, both DROPPED, both still in the system list and in no
\* other list
C20_Witness ==
  /\ Len(registrations) = 2
  /\ registrations[1].status = "Dropped"
  /\ registrations[2].status = "Dropped"
  /\ \A c \in Courses : enrolled_students[c] = <<>>
  /\ \A s \in Students : enrollments[s] = <<>>

\* the course's status and enrolled count as register(s, c) leaves them
StatusAfterRegister(s, c) ==
  IF register_checks(s, c) # None THEN status[c]
  ELSE enroll_student(c, Len(registrations) + 1).status

CountAfterRegister(s, c) ==
  IF register_checks(s, c) # None THEN Len(enrolled_students[c])
  ELSE Len(enroll_student(c, Len(registrations) + 1).enrolled)

\* the course's status and enrolled count as drop(s, c) leaves them
StatusAfterDrop(s, c) ==
  IF FindActive(s, c) = 0 THEN status[c]
  ELSE drop_student(c, enrollments[s][FindActive(s, c)]).status

CountAfterDrop(s, c) ==
  IF FindActive(s, c) = 0 THEN Len(enrolled_students[c])
  ELSE Len(drop_student(c, enrollments[s][FindActive(s, c)]).enrolled)

\* C21 as stated: after any register or drop call on a course whose status
\* is OPEN or FULL, successful or not, the status is FULL exactly when the
\* enrolled count is >= capacity.
C21_Original ==
  \A s \in Students, c \in Courses :
    status[c] # "CLOSED" =>
      /\ StatusAfterRegister(s, c) = "FULL"
           <=> CountAfterRegister(s, c) >= max_capacity[c]
      /\ StatusAfterDrop(s, c) = "FULL"
           <=> CountAfterDrop(s, c) >= max_capacity[c]

\* C21 amended: a forced OPEN or FULL status persists until the next
\* register call on that course that passes the four precondition checks
\* (whether the insertion then succeeds or not) or the next successful drop
\* on it: after such a call the status is FULL exactly when the enrolled
\* count is >= capacity; a register that fails a precondition check and a
\* drop without an ACTIVE registration leave the forced status as it is.
C21_RecomputedByInsertion ==
  /\ [](\A s \in Students, c \in Courses :
          status[c] # "CLOSED" =>
            /\ IF register_checks(s, c) = None
               THEN StatusAfterRegister(s, c) = "FULL"
                      <=> CountAfterRegister(s, c) >= max_capacity[c]
               ELSE StatusAfterRegister(s, c) = status[c]
            /\ IF FindActive(s, c) # 0
               THEN StatusAfterDrop(s, c) = "FULL"
                      <=> CountAfterDrop(s, c) >= max_capacity[c]
               ELSE StatusAfterDrop(s, c) = status[c])
  /\ [][\A c \in Courses :
          (status'[c] # status[c] /\ registrations' # registrations) =>
             (status'[c] = "FULL" <=> Len(enrolled_students'[c]) >= max_capacity[c])]_vars

\* a course forced OPEN while it is full, a student who passes every
\* precondition check, and another course forced FULL while it has a free
\* seat
C21_Witness ==
  \E s \in Students, c \in Courses, c2 \in Courses :
    /\ status[c] = "OPEN"
    /\ Len(enrolled_students[c]) >= max_capacity[c]
    /\ register_checks(s, c) = None
    /\ StatusAfterRegister(s, c) = "FULL"
    /\ status[c2] = "FULL"
    /\ Len(enrolled_students[c2]) < max_capacity[c2]

\* C24: a register, drop or assignGrade call that returns failure changes
\* nothing: the course's status and enrolled list, the student's list and
\* credits, every registration and the system list are as before the call,
\* also after registrar overrides.
C24_FailureChangesNothing ==
  [][\A s \in Students, c \in Courses :
       (status'[c] # status[c] /\ ~register_result(s, c).ok)
          => ~register_student_for_course(s, c)]_vars

\* the registrations of the three views
InCourseList == UNION {Range(enrolled_students[c]) : c \in Courses}
InStudentList == UNION {Range(enrollments[s]) : s \in Students}
ActiveInSystem ==
  {i \in 1..Len(registrations) : registrations[i].status = "Active"}

RECURSIVE EnrolledTotal(_)
EnrolledTotal(cs) ==
  IF cs = {} THEN 0
  ELSE LET c == CHOOSE x \in cs : TRUE
       IN get_current_enrollment(c) + EnrolledTotal(cs \ {c})

\* C29: in every state reachable through register, drop and assignGrade a
\* registration is in its course's enrolled list iff it is in its student's
\* enrollment list iff it is in the system list with status ACTIVE; every
\* registration of a student's list is ACTIVE, and active_registrations of
\* the statistics is the sum of the courses' enrolled counts.
C29_ViewsAgree ==
  /\ \A i \in 1..Len(registrations) :
       LET reg == registrations[i]
       IN /\ (i \in Range(enrolled_students[reg.course]))
               <=> (i \in Range(enrollments[reg.student]))
          /\ (i \in Range(enrollments[reg.student])) <=> (reg.status = "Active")
  /\ InCourseList = ActiveInSystem
  /\ InStudentList = ActiveInSystem
  /\ \A c \in Courses : \A i \in Range(enrolled_students[c]) : registrations[i].course = c
  /\ \A s \in Students : \A i \in Range(enrollments[s]) : registrations[i].student = s
  /\ get_system_statistics.active_registrations = EnrolledTotal(Courses)

\* one DROPPED registration and an ACTIVE one in each course
C29_Witness ==
  /\ \E i \in 1..Len(registrations) : registrations[i].status = "Dropped"
  /\ \A c \in Courses : get_current_enrollment(c) = 1
  /\ get_system_statistics.active_registrations = 2
  /\ get_system_statistics.total_registrations = 3

\* C30: in every state reachable through register, drop and assignGrade
\* every DROPPED registration has the grade WITHDRAWAL: once dropped, a
\* registration's grade is no longer changed by assignGrade.
C30_DroppedKeepsW ==
  /\ [](\A i \in 1..Len(registrations) :
          registrations[i].status = "Dropped" => registrations[i].grade = "W")
  /\ [][\A i \in 1..Len(registrations) :
          registrations[i].status = "Dropped" => registrations'[i] = registrations[i]]_vars

\* a student dropped a course, registered for it again and was graded: the
\* dropped registration still has W
C30_Witness ==
  \E s \in Students, c \in Courses :
    \E i \in DroppedOfPair(s, c), j \in ActiveOfPair(s, c) :
      /\ registrations[i].grade = "W"
      /\ registrations[j].grade \in GradeInputs \ {"W"}
      /\ assign_grade_result(instructor[c], s, c).ok

\* the grades with points and their points in tenths, as C22 lists them
PointGrades == <<"A+", "A", "A-", "B+", "B", "B-", "C+", "C", "C-", "D", "F">>
PointTenths == <<40, 40, 37, 33, 30, 27, 23, 20, 17, 10, 0>>
PointsOfGrade(g) == PointTenths[CHOOSE k \in 1..Len(PointGrades) : PointGrades[k] = g]

\* the registrations of a student's enrollment list that count for the GPA
Included(s) ==
  {i \in Range(enrollments[s]) : registrations[i].grade \in Range(PointGrades)}

RECURSIVE PointsTimesCredits(_)
PointsTimesCredits(set) ==
  IF set = {} THEN 0
  ELSE LET r == CHOOSE x \in set : TRUE
       IN PointsOfGrade(registrations[r].grade) * credits[registrations[r].course]
            + PointsTimesCredits(set \ {r})

\* the whole part of x * 2^20, for a float 0.0 <= x < 2^10
Truncated(x) == IF x.m = << >> THEN 0 ELSE Val(ShiftRight(x.m, 0 - x.e - 20).q)

Distance(a, b) == IF a < b THEN b - a ELSE a - b

\* C22: calculateGPA(student) is the sum of points x credits divided by the
\* sum of credits over exactly the registrations of the student's enrollment
\* list whose grade is one of A+..F (points in tenths 40, 40, 37, 33, 30,
\* 27, 23, 20, 17, 10, 0); INCOMPLETE, WITHDRAWAL, NOT_GRADED and ungraded
\* registrations are in neither sum, and the result is 0 when no
\* registration is included.  The result is a float: it lies within 2^-20
\* of the quotient, and the value of the grade report is a hundredth
\* nearest to the quotient.
C22_GpaIsWeightedMean ==
  \A s \in Students :
    LET g == calculate_gpa_result(s)
        points == PointsTimesCredits(Included(s))
        creds == CreditsOfSet(Included(s))
    IN /\ IF Included(s) = {} THEN g = Zero
          ELSE Distance(Truncated(g) * 10 * creds, points * 2^20) <= 10 * creds
       /\ gpa[s] \in {Zero, g}
       /\ \E h \in 0..400 :
            /\ 2 * Distance(h * creds, 10 * points) <= creds
            /\ get_grade_report_result(s).gpa = truediv(float(h), 100)

\* the example: credits 3 grade A and credits 4 grade B give the float
\* nearest to 24/7, and 3.43 in the grade report
C22_Witness ==
  \E s \in Students :
    /\ Len(enrollments[s]) = 2
    /\ \E i, j \in Range(enrollments[s]) :
         /\ registrations[i].course = "X" /\ registrations[i].grade = "A"
         /\ registrations[j].course = "Y" /\ registrations[j].grade = "B"
    /\ gpa[s] = truediv(float(24), 7)
    /\ get_grade_report_result(s).gpa = truediv(float(343), 100)

\* C23: gradeReport, enrollmentReport and systemStatistics are pure reads:
\* a call of any of them leaves every field of every Student (the stored
\* GPA included), Course and Registration unchanged.
C23_ReportsArePure ==
  [][(GradeReport \/ EnrollmentReport \/ SystemStatistics) => UNCHANGED vars]_vars

\* the three stores in the order login tries them, and the stores that hold
\* a person under an id with a password
Stores ==
  << [role |-> "Student", people |-> students],
     [role |-> "Professor", people |-> professors],
     [role |-> "Registrar", people |-> registrars] >>
Holding(user_id, password) ==
  {k \in 1..Len(Stores) :
     user_id \in DOMAIN Stores[k].people /\ Stores[k].people[user_id] = password}

\* C25: login(userId, password) returns a person, and makes that person the
\* current user, if and only if one of the student, professor and registrar
\* stores holds a person under that id with that password: the person of the
\* first such store in that order; otherwise it returns absent.  logout
\* leaves the current user absent, and the current user becomes a person
\* only by a login that returns that person.
C25_LoginIffStored ==
  /\ [](\A user_id \in UserIds, password \in Passwords :
          LET held == Holding(user_id, password)
          IN IF held = {} THEN login_result(user_id, password) = Nobody
             ELSE \E k \in held :
                    /\ \A j \in held : k <= j
                    /\ login_result(user_id, password) = Person(Stores[k].role, user_id))
  /\ [][/\ \A user_id \in UserIds, password \in Passwords :
             (login(user_id, password) /\ Holding(user_id, password) # {})
               => current_user' = login_result(user_id, password)
        /\ logout => current_user' = Nobody
        /\ current_user' # current_user =>
             \/ current_user' = Nobody
             \/ \E user_id \in UserIds, password \in Passwords :
                  /\ Holding(user_id, password) # {}
                  /\ current_user' = login_result(user_id, password)]_vars

\* the registrar whose id is also a professor's logged in with the
\* registrar's password: the professor store was tried and did not accept
C25_Witness ==
  /\ current_user = Person("Registrar", "p2")
  /\ Holding("p2", "pw1") = {3}
  /\ Holding("p2", "pw2") = {2}

\* YY DDD NNNNN: 10 characters, two decimal digits of which the first is a
\* 2, one of the 14 department codes, five decimal digits of which the first
\* is a 1 and the other four are not all 0
WellFormedRegNo(text) ==
  /\ Len(text) = 10
  /\ \A i \in {1, 2, 6, 7, 8, 9, 10} : text[i] \in DOMAIN DigitValue
  /\ DigitValue[text[1]] = 2
  /\ \E d \in 1..Len(valid_departments) : SubSeq(text, 3, 5) = valid_departments[d]
  /\ DigitValue[text[6]] = 1
  /\ \E i \in 7..10 : DigitValue[text[i]] # 0

\* C27: validate_registration_number accepts a string if and only if it is
\* 10 characters YY DDD NNNNN with YY in 20..29, DDD one of the 14
\* department codes and NNNNN in 10001..19999; in the command surface a
\* pass that reads a new registration number logs a user in only if the
\* number (stripped, in upper case) is accepted.
C27_AcceptsIffWellFormed ==
  /\ [](/\ Cardinality(Range(valid_departments)) = 14
        /\ \A typed \in TypedRegNos \cup {reg_no} :
             validate_registration_number(typed).ok <=> WellFormedRegNo(typed))
  /\ [][(reg_no' # reg_no /\ current_user' # current_user)
          => WellFormedRegNo(reg_no')]_vars

\* the pass of choice "1" read 24BET10001 (typed so, or in lower case) and
\* logged a user in; the numbers next to the limits are rejected
C27_Witness ==
  /\ reg_no = <<"2","4">> \o <<"B","E","T">> \o <<"1","0","0","0","1">>
  /\ current_user # Nobody
  /\ ~validate_registration_number(<<"2","4">> \o <<"B","E","T">> \o <<"1","0","0","0","0">>).ok
  /\ validate_registration_number(<<"2","9">> \o <<"B","O","E">> \o <<"1","9","9","9","9">>).ok
  /\ ~validate_registration_number(<<"3","0">> \o <<"B","E","T">> \o <<"1","0","0","0","1">>).ok

\* the operation that corresponds to an entry of the menu
OperationOf ==
  "Login" :> "login" @@ "Logout" :> "logout"
  @@ "View System Statistics" :> "get_system_statistics"
  @@ "Register for Course" :> "register_student_for_course"
  @@ "Drop Course" :> "drop_course"
  @@ "View Grade Report" :> "get_student_grade_report"
  @@ "Assign Grade" :> "assign_grade"
  @@ "Add New Student" :> "add_student"
  @@ "Add New Course" :> "add_course"

\* C26: every action of the command surface invokes its corresponding
\* operation: whoever is logged in, the choice of an entry of the menu calls
\* the operation of that entry (assign_grade for a professor's Assign Grade,
\* add_student and add_course for a registrar's Add New Student and Add New
\* Course, register and drop for a student's entries).
C26_ActionsInvokeOperations ==
  \A choice \in Choices :
    menu_label(choice, current_user) \in DOMAIN OperationOf
      => menu_operation(choice, current_user) = OperationOf[menu_label(choice, current_user)]

\* the ACTIVE registrations of a pair in the student's own list, the
\* Registration of a call in progress included
ActiveInList(s, c) ==
  {j \in 1..Len(enrollments[s]) :
     /\ Object(enrollments[s][j]).course = c
     /\ Object(enrollments[s][j]).status = "Active"}

\* C28: when each register call runs atomically (the calls exclude each
\* other), no course has more enrolled registrations than its capacity, no
\* (student, course) pair has two ACTIVE registrations, and between calls
\* the status is FULL exactly when the count has reached the capacity.
\* Without the exclusion the statements of two calls interleave and such
\* states are reached (C28_Witness).
C28_SerializedKeepsInvariants ==
  serialized =>
    /\ \A c \in Courses : Len(enrolled_students[c]) <= max_capacity[c]
    /\ \A s \in Students, c \in Courses :
         /\ Cardinality(ActiveInList(s, c)) <= 1
         /\ Cardinality(ActiveOfPair(s, c)) <= 1
    /\ (\A p \in Procs : pc[p] = Idle) =>
         \A c \in Courses : status[c] = "FULL" <=> is_full(c)

\* two interleaved calls for the same student and course have both
\* returned: the course holds more registrations than its capacity and the
\* pair has two ACTIVE registrations
C28_Witness ==
  /\ ~serialized
  /\ \A p \in Procs : pc[p] = Idle
  /\ \E c \in Courses : Len(enrolled_students[c]) > max_capacity[c]
  /\ \E s \in Students, c \in Courses :
       /\ Cardinality(ActiveOfPair(s, c)) = 2
       /\ Cardinality(ActiveInList(s, c)) = 2

\* the courses reached from a set of courses along the prerequisite lists
RECURSIVE Requires(_, _)
Requires(set, n) ==
  IF n = 0 THEN set
  ELSE Requires(set \cup UNION {Range(prerequisites[c]) : c \in set}, n - 1)

\* a course that is, directly or through other courses, its own prerequisite
OnCycle(c) == c \in Requires(Range(prerequisites[c]), Cardinality(Courses))

\* the registrations of a course, in any status, in the system-wide list
\* and in the lists of the students and of the course
RegistrationsOfCourse(c) ==
  {i \in 1..Len(registrations) : registrations[i].course = c}

\* C31: add_prerequisite accepts a prerequisite that closes a cycle (a
\* course as its own prerequisite included), and with the relation fixed
\* before any registration exists no student ever has a registration, in
\* any status, for a course on a cycle.
C31_CycleUnenrollable ==
  /\ [](\A c \in Courses :
          OnCycle(c) =>
            /\ RegistrationsOfCourse(c) = {}
            /\ enrolled_students[c] = << >>
            /\ \A s \in Students : ~register_result(s, c).ok)
  /\ [][\A c \in Courses, course \in Courses :
          (prerequisites' # prerequisites /\ add_prerequisite(c, course))
            => course \in Range(prerequisites'[c])]_vars

\* X requires Y and itself: a student has passed Y and is still refused X
\* for the prerequisite X; elsewhere both courses can require each other
C31_Witness ==
  /\ prerequisites["X"] = <<"Y", "X">>
  /\ OnCycle("X") /\ ~OnCycle("Y")
  /\ \E s \in Students :
       /\ "Y" \in student_completed_courses(s)
       /\ register_result(s, "X") = [ok |-> FALSE, msg |-> MsgPrereq \o name["X"]]

\* C32: after any sequence of register, drop, remove_student and
\* remove_course, every registration in the enrolled list of a stored
\* course belongs to a student of the student store, and every ACTIVE
\* registration is for a course of the course store.
C32_ReferentialIntegrity ==
  /\ \A c \in courses :
       \A i \in 1..Len(enrolled_students[c]) :
         registrations[enrolled_students[c][i]].student \in DOMAIN students
  /\ \A i \in 1..Len(registrations) :
       registrations[i].status = "Active" => registrations[i].course \in courses

\* the course, registration and student records
records ==
  <<status, enrolled_students, max_capacity, prerequisites, enrollments,
    total_credits, registrations, gpa, students, courses>>

\* C33: in the command surface a register or drop is performed only while
\* the current user has the Student role, and for that user; with nobody, a
\* professor or a registrar logged in no choice calls an operation that
\* changes a record, and no pass of the menu changes a course, registration
\* or student record.
C33_OnlyForLoggedInStudent ==
  /\ [](current_user.role # "Student" =>
          \A choice \in Choices :
            menu_operation(choice, current_user) \notin
              {"register_student_for_course", "drop_course", "get_student_grade_report"})
  /\ [][records' # records =>
          /\ current_user.role = "Student"
          /\ current_user' = current_user
          /\ \A s \in Students \ {current_user.id} :
               /\ enrollments'[s] = enrollments[s]
               /\ total_credits'[s] = total_credits[s]
               /\ gpa'[s] = gpa[s]
          /\ \A i \in 1..Len(registrations') :
               (i > Len(registrations) \/ registrations'[i] # registrations[i])
                 => registrations'[i].student = current_user.id]_vars

\* a student registered through the menu, then a professor logged in: the
\* registration is there and no choice of the professor reaches it
C33_Witness ==
  /\ current_user.role = "Professor"
  /\ \E i \in 1..Len(registrations) : registrations[i].status = "Active"
  /\ menu_label("7", current_user) = "Assign Grade"
  /\ menu_operation("7", current_user) = None

\* C34: a login with an unknown id or a wrong password leaves the current
\* user as it was, also when somebody is logged in; a login that succeeds
\* while another user is logged in makes the new person the current user
\* with no logout in between; in both cases nothing else changes.
C34_FailedLoginKeepsSession ==
  [][\A user_id \in UserIds, password \in Passwords :
       login(user_id, password) =>
         /\ Holding(user_id, password) = {} => current_user' = current_user
         /\ Holding(user_id, password) # {} =>
              /\ current_user' = login_result(user_id, password)
              /\ current_user' # Nobody
         /\ records' = records]_vars

\* professor p2 is logged in: a wrong password for s1 and the unknown id zz
\* would fail, and the registrar's password for the same id would succeed
C34_Witness ==
  /\ current_user = Person("Professor", "p2")
  /\ Holding("s1", "pw2") = {} /\ "s1" \in DOMAIN students
  /\ Holding("zz", "pw1") = {}
  /\ login_result("p2", "pw1") = Person("Registrar", "p2")
====
